---- MODULE Spec2Model ----
(***************************************************************************)
(* A model of the two engineering components of the HF Hub Manager:        *)
(*   - hf_backend/retry.py : _is_retryable and with_retry                  *)
(*   - ui/workers.py       : ApiWorker (run / cancel), together with the   *)
(*     controller side of it in ui/main_window.py (_run_api, the queued    *)
(*     _on_finished / _on_error callbacks, closeEvent).                    *)
(*                                                                         *)
(*   - hf_backend/hf_auth.py, hf_repos.py, hf_files.py, hf_collections.py, *)
(*     hf_model_card.py : the shared client handle and the backend         *)
(*     functions, as far as their remote calls and except clauses go.      *)
(*                                                                         *)
(* SpecRetry is one call of with_retry.  Spec is the program: the          *)
(* controller, its worker threads and closeEvent, the only caller of       *)
(* cancel().  SpecWorker is the ApiWorker class on its own, under a client *)
(* that starts workers and may call cancel() at any moment; SpecWorkerLive *)
(* adds the fairness of the thread scheduler.  SpecBackend is one call of  *)
(* a backend function, SpecAuth the handle under get_api and _reset_api,   *)
(* SpecWorkerOp a worker that runs a backend function and may be           *)
(* cancelled, SpecNotify one operation of the main window from _run_api to *)
(* the callback that reports its outcome.                                  *)
(***************************************************************************)
EXTENDS Integers, Sequences, FiniteSets, TLC

VARIABLES
    \* ---- one call of with_retry (retry.py) ----
    retries,        \* the retries argument
    delay,          \* the delay argument, in whole time units
    idx,            \* the next value range(retries) yields
    attempt,        \* the loop variable
    rpc,            \* position: "for", "try", "sleep", "exhausted", "returned", "raised"
    last_err,       \* last_err (NoErr stands for None)
    callLog,        \* what every invocation of fn did, in order
    sleeps,         \* the argument of every time.sleep, in order
    result,         \* how with_retry ended: a returned value or a raised failure
    fn_self,        \* the object fn is a bound method of (the client handle)
    selfLog,        \* the object every invocation of fn ran on, in order
    \* ---- ApiWorker threads and the controller (workers.py, main_window.py) ----
    wpc,            \* position of each worker thread in run()
    outcome,        \* what self._fn did in each worker
    _cancelled,     \* ApiWorker._cancelled
    signalsBlocked, \* QObject.signalsBlocked() of each worker
    busyArg,        \* the busy argument each worker was started with
    emitted,        \* signals each worker has emitted (that were not blocked)
    eventQueue,     \* queued-connection calls posted to the interactive thread
    delivered,      \* callbacks the controller has run for each worker
    _workers,       \* MainWindow._workers
    _busy,          \* MainWindow._busy
    mainpc,         \* position of the interactive thread: "idle" or inside closeEvent
    closeList,      \* closeEvent: the workers of list(self._workers) still to visit
    closeCur,       \* closeEvent: the worker of the current iteration
    closed,         \* closeEvent has run to its end
    \* ---- one call of a backend function (hf_auth, hf_repos, hf_files, ...) ----
    called,         \* the function that was called
    stack,          \* the call stack: the function of each frame and its position
    bpc,            \* "idle", "run", "retry" (inside with_retry), "raising", "done"
    argToken,       \* the token argument of login / whoami
    exc,            \* the exception that is propagating
    retval,         \* the value of the last completed call
    bresult,        \* how the outermost function ended
    cause,          \* the failure that left the last failed remote call
    inner,          \* the exception the last wrapping handler caught
    layers,         \* the modules whose handlers wrapped the propagating exception
    remoteKinds,    \* per invocation of a remote method: "ok", "transient", "permanent"
    \* ---- the shared client handle (hf_auth.py) ----
    _api_instance,  \* hf_auth._api_instance
    nextHandle,     \* identity of the next HfApi object constructed
    apiArg,         \* the last call made to hf_auth: get_api (caller, token) or _reset_api
    apiRet,         \* what the last get_api call of each caller returned
    \* ---- what the user sees of a failure (main_window.py) ----
    site,           \* the _run_api call site each worker was started from
    dialogs,        \* the modal error dialogs shown, in order: title and text
    statusBar,      \* the message in the status bar
    readmeView,     \* the text of the README view
    \* ---- threads ----
    tid,            \* the thread that executes run() of each worker
    cbThread,       \* the thread that ran the callback of each worker's outcome
    \* ---- a caller that calls with_retry again and again ----
    calls,          \* the number of calls of with_retry it has made
    \* ---- the session of the main window (main_window.py) ----
    _user,          \* MainWindow._user ("None", or the name of the user)
    hf_token,       \* the token in the settings (AppSettings, key hf_token)
    btn_login,      \* _btn_login.isEnabled()
    btn_logout,     \* _btn_logout.isEnabled()
    actions_enabled,\* the state of the widgets that only _set_busy enables
    _all_repos,     \* MainWindow._all_repos and the repository list: "empty" / "listed"
    collections,    \* the collections tree: "empty" / "listed"
    wargs,          \* the arguments each worker's operation was started with
    nlogins,        \* the number of logins started
    loginResults,   \* the logins whose callback has run: site, token, success
    loggedOut,      \* the user has logged out and has not started a login since
    \* ---- login running in a worker thread (hf_auth.py) ----
    lpc,            \* the position of each worker inside login
    lapi,           \* the local variable api of each worker's login
    \* ---- the README of the selected repository (main_window.py) ----
    _current_repo_id, \* MainWindow._current_repo_id
    _current_repo_type, \* MainWindow._current_repo_type
    tree_item,      \* the repository of the current item of the repository list
    _readme_cache,  \* MainWindow._readme_cache, by repository
    remote_readme,  \* the README.md of each repository on the hub
    browser_repo,   \* the repository whose files the file browser shows
    view_repo,      \* the repository whose README the README view shows
    lastPush,       \* the content of the last README push that was reported as
                    \* done, by repository; none after an explicit reload
    nops            \* the number of user actions on repositories that started work

retryVars == <<retries, delay, idx, attempt, rpc, last_err, callLog, sleeps, result,
               fn_self, selfLog>>
workerVars == <<wpc, outcome, _cancelled, signalsBlocked, busyArg, emitted,
                eventQueue, delivered, _workers, _busy, mainpc, closeList,
                closeCur, closed>>
backendVars == <<called, stack, bpc, argToken, exc, retval, bresult, cause, inner, layers,
                 remoteKinds>>
authVars == <<_api_instance, nextHandle, apiArg, apiRet>>
uiVars == <<site, dialogs, statusBar, readmeView>>
threadVars == <<tid, cbThread>>
callerVars == <<calls>>
sessionVars == <<_user, hf_token, btn_login, btn_logout, actions_enabled, _all_repos,
                 collections, wargs, nlogins, loginResults, loggedOut>>
loginVars == <<lpc, lapi>>
readmeVars == <<_current_repo_id, _current_repo_type, tree_item, _readme_cache,
                remote_readme, browser_repo, view_repo, lastPush,
                nops>>
vars == <<retries, delay, idx, attempt, rpc, last_err, callLog, sleeps, result,
          fn_self, selfLog,
          wpc, outcome, _cancelled, signalsBlocked, busyArg, emitted,
          eventQueue, delivered, _workers, _busy, mainpc, closeList,
          closeCur, closed,
          called, stack, bpc, argToken, exc, retval, bresult, cause, inner, layers,
          remoteKinds, _api_instance, nextHandle, apiArg, apiRet,
          site, dialogs, statusBar, readmeView, tid, cbThread, calls,
          _user, hf_token, btn_login, btn_logout, actions_enabled, _all_repos,
          collections, wargs, nlogins, loginResults, loggedOut, lpc, lapi,
          _current_repo_id, _current_repo_type, tree_item, _readme_cache, remote_readme,
          browser_repo, view_repo, lastPush, nops>>

\* what a step of with_retry, and what a step of a worker or of the
\* controller, leaves alone
nonRetryVars == <<workerVars, backendVars, authVars, uiVars, threadVars, callerVars,
                  sessionVars, loginVars, readmeVars>>
nonWorkerVars == <<retryVars, backendVars, authVars, uiVars, threadVars, callerVars,
                   sessionVars, loginVars, readmeVars>>
\* the controller and its workers, with what no backend function touches
controllerVars == <<workerVars, uiVars, threadVars, callerVars, sessionVars, loginVars,
                    readmeVars>>
\* what a handler or a callback of the main window leaves alone
nonControllerVars == <<retryVars, backendVars, authVars, callerVars, sessionVars, loginVars,
                       readmeVars>>

(***************************************************************************)
(* Bounds of the model and constants of the program.                       *)
(***************************************************************************)
MaxRetries == 3
MaxDelay == 2
NumWorkers == 2
MaxHandles == 3
MaxCalls == 2
NumSlots == 3
MaxLogins == 3
MaxDialogs == 1
MaxOps == 2

DefaultRetries == 3
DefaultDelay == 1
ServerErrorFloor == 500

(***************************************************************************)
(* Exceptions.  A failure is a record: its class, the response it carries  *)
(* (HfHubHTTPError.response: absent, or with a status code) and its        *)
(* message (what str() gives).  Parent is the class hierarchy of httpx,    *)
(* huggingface_hub and the builtins, as far as the code depends on it.     *)
(***************************************************************************)
Parent(c) ==
    CASE c = "ConnectError" -> "NetworkError"
      [] c = "ReadTimeout" -> "TimeoutException"
      [] c = "NetworkError" -> "TransportError"
      [] c = "TimeoutException" -> "TransportError"
      [] c = "ProtocolError" -> "TransportError"
      [] c = "ProxyError" -> "TransportError"
      [] c = "TransportError" -> "HTTPError"
      [] c = "RepositoryNotFoundError" -> "HfHubHTTPError"
      [] c = "HfHubHTTPError" -> "HTTPError"
      [] c = "HTTPError" -> "Exception"
      [] c = "HFAuthError" -> "RuntimeError"
      [] c = "HFRepoError" -> "RuntimeError"
      [] c = "HFFileError" -> "RuntimeError"
      [] c = "HFCollectionError" -> "RuntimeError"
      [] c = "HFModelCardError" -> "RuntimeError"
      [] c = "RuntimeError" -> "Exception"
      [] c = "ValueError" -> "Exception"
      [] c = "TypeError" -> "Exception"
      [] c = "AttributeError" -> "Exception"
      [] c = "Exception" -> "BaseException"
      [] OTHER -> "BaseException"

RECURSIVE Ancestors(_)
Ancestors(c) == IF c = "BaseException" THEN {c} ELSE {c} \cup Ancestors(Parent(c))

\* isinstance(err, classes) for a tuple of classes
IsInstance(err, classes) == Ancestors(err.cls) \cap classes # {}

NoResponse == [present |-> FALSE, status_code |-> 0]
Response(code) == [present |-> TRUE, status_code |-> code]
Exc(c, resp, m) == [cls |-> c, response |-> resp, msg |-> m]

\* None, for last_err
NoErr == Exc("None", NoResponse, "None")

\* str(e)
Str(e) == e.msg

_TRANSPORT_ERRORS == {"ConnectError", "TimeoutException", "NetworkError", "ProtocolError"}

_is_retryable_NoStatus(err) ==
    \/ IsInstance(err, _TRANSPORT_ERRORS)
    \/ IsInstance(err, {"HfHubHTTPError"})

_is_retryable_Above(err) ==
    IF IsInstance(err, _TRANSPORT_ERRORS) THEN TRUE
    ELSE IF IsInstance(err, {"HfHubHTTPError"})
         THEN err.response.present /\ err.response.status_code > ServerErrorFloor
         ELSE FALSE

_is_retryable(err) ==
    IF IsInstance(err, _TRANSPORT_ERRORS) THEN TRUE
    ELSE IF IsInstance(err, {"HfHubHTTPError"})
         THEN err.response.present /\ err.response.status_code >= ServerErrorFloor
         ELSE FALSE

\* the except clause of with_retry: except (HfHubHTTPError, *_TRANSPORT_ERRORS)
Caught(err) == IsInstance(err, {"HfHubHTTPError"} \cup _TRANSPORT_ERRORS)

(***************************************************************************)
(* What fn can do when with_retry invokes it: return a value or raise.     *)
(***************************************************************************)
Returned(v) == [kind |-> "return", val |-> v, err |-> NoErr]
Raised(e) == [kind |-> "raise", val |-> "None", err |-> e]
NoResult == [kind |-> "none", val |-> "None", err |-> NoErr]

HttpStatuses == {404, 499, 500, 503}

FnErrors ==
    {Exc(c, NoResponse, c) :
        c \in {"ConnectError", "ReadTimeout", "TimeoutException", "NetworkError",
               "ProtocolError", "ProxyError", "ValueError"}}
    \cup {Exc("HfHubHTTPError", NoResponse, "http error without response")}
    \cup {Exc("HfHubHTTPError", Response(s), "http error") : s \in HttpStatuses}
    \cup {Exc("RepositoryNotFoundError", Response(404), "repository not found")}

FnValues == {"v1", "v2"}

FnOutcomes == {Returned(v) : v \in FnValues} \cup {Raised(e) : e \in FnErrors}

\* the failures the specification calls transient: connection failures,
\* timeouts, network and protocol errors, and HTTP errors with status >= 500
TransientFailure(e) ==
    \/ e.cls \in {"ConnectError", "ReadTimeout", "TimeoutException",
                  "NetworkError", "ProtocolError"}
    \/ /\ e.cls \in {"HfHubHTTPError", "RepositoryNotFoundError"}
       /\ e.response.present
       /\ e.response.status_code >= 500

(***************************************************************************)
(* with_retry (retry.py 24-39)                                             *)
(***************************************************************************)
\* range(retries) still has a value to yield
InRange_OffByOne(i, n) == i <= n

InRange_OneShort(i, n) == i < n - 1

InRange(i, n) == i < n

\* the wait before the next attempt
Wait_ZeroBased(d, a) == d * a

Wait(d, a) == d * (a + 1)

\* the guard of the sleep: attempt < retries - 1
SleepsAfter(a, n) == a < n - 1

\* raise last_err; raising None is a TypeError
RaiseLast(e) ==
    IF e = NoErr
    THEN Raised(Exc("TypeError", NoResponse, "exceptions must derive from BaseException"))
    ELSE Raised(e)

\* None, for _api_instance and for a frame that has not taken the handle yet
NoHandle == [id |-> 0, token |-> "None"]

\* HfApi(token=...): a new object
HfApi(n, t) == [id |-> n, token |-> t]

\* fn(*args, **kwargs): the object the bound method runs on
BoundSelf_SharedHandle == _api_instance

BoundSelf == fn_self

InitRetryVars ==
    /\ fn_self = NoHandle
    /\ selfLog = <<>>
    /\ idx = 0
    /\ attempt = 0
    /\ rpc = "for"
    /\ last_err = NoErr
    /\ callLog = <<>>
    /\ sleeps = <<>>
    /\ result = NoResult

\* for attempt in range(retries):
ForIter ==
    /\ rpc = "for"
    /\ IF InRange(idx, retries)
       THEN /\ attempt' = idx
            /\ idx' = idx + 1
            /\ rpc' = "try"
       ELSE /\ rpc' = "exhausted"
            /\ UNCHANGED <<attempt, idx>>
    /\ UNCHANGED <<retries, delay, last_err, callLog, sleeps, result, fn_self, selfLog>>
    /\ UNCHANGED nonRetryVars

\* the except handler of one attempt, for a failure e of fn
HandlerNoClassify(e) ==
    /\ last_err' = e
    /\ result' = result
    /\ rpc' = IF SleepsAfter(attempt, retries) THEN "sleep" ELSE "for"

Handler_KeepFirst(e) ==
    IF ~Caught(e) \/ ~_is_retryable(e)
    THEN /\ result' = Raised(e)
         /\ rpc' = "raised"
         /\ last_err' = last_err
    ELSE /\ last_err' = IF last_err = NoErr THEN e ELSE last_err
         /\ result' = result
         /\ rpc' = IF SleepsAfter(attempt, retries) THEN "sleep" ELSE "for"

Handler_RaisesEarlier(e) ==
    IF ~Caught(e) \/ ~_is_retryable(e)
    THEN /\ result' = Raised(IF last_err = NoErr THEN e ELSE last_err)
         /\ rpc' = "raised"
         /\ last_err' = last_err
    ELSE /\ last_err' = e
         /\ result' = result
         /\ rpc' = IF SleepsAfter(attempt, retries) THEN "sleep" ELSE "for"

Handler(e) ==
    IF ~Caught(e) \/ ~_is_retryable(e)
    THEN /\ result' = Raised(e)
         /\ rpc' = "raised"
         /\ last_err' = last_err
    ELSE /\ last_err' = e
         /\ result' = result
         /\ rpc' = IF SleepsAfter(attempt, retries) THEN "sleep" ELSE "for"

\* try: return fn(*args, **kwargs)  except ...: the handler
TryCall ==
    /\ rpc = "try"
    /\ \E o \in FnOutcomes :
        /\ callLog' = Append(callLog, o)
        /\ IF o.kind = "return"
           THEN /\ result' = o
                /\ rpc' = "returned"
                /\ last_err' = last_err
           ELSE Handler(o.err)
    /\ selfLog' = Append(selfLog, BoundSelf)
    /\ UNCHANGED <<retries, delay, idx, attempt, sleeps, fn_self>>
    /\ UNCHANGED nonRetryVars

\* time.sleep(wait)
Sleep ==
    /\ rpc = "sleep"
    /\ sleeps' = Append(sleeps, Wait(delay, attempt))
    /\ rpc' = "for"
    /\ UNCHANGED <<retries, delay, idx, attempt, last_err, callLog, result, fn_self, selfLog>>
    /\ UNCHANGED nonRetryVars

\* raise last_err
Exhausted ==
    /\ rpc = "exhausted"
    /\ result' = RaiseLast(last_err)
    /\ rpc' = "raised"
    /\ UNCHANGED <<retries, delay, idx, attempt, last_err, callLog, sleeps, fn_self, selfLog>>
    /\ UNCHANGED nonRetryVars

\* with_retry is called again, after an earlier call has ended: the locals are
\* those of the new call
WithRetryCall_KeepsCounter ==
    /\ rpc \in {"returned", "raised"}
    /\ calls < MaxCalls
    /\ calls' = calls + 1
    /\ \E n \in -1..MaxRetries, d \in 1..MaxDelay :
        /\ retries' = n
        /\ delay' = d
    /\ rpc' = "for"
    /\ callLog' = <<>>
    /\ sleeps' = <<>>
    /\ result' = NoResult
    /\ selfLog' = <<>>
    /\ UNCHANGED <<idx, attempt, last_err, fn_self>>
    /\ UNCHANGED <<workerVars, backendVars, authVars, uiVars, threadVars, sessionVars,
                   loginVars, readmeVars>>

WithRetryCall ==
    /\ rpc \in {"returned", "raised"}
    /\ calls < MaxCalls
    /\ calls' = calls + 1
    /\ \E n \in -1..MaxRetries, d \in 1..MaxDelay :
        /\ retries' = n
        /\ delay' = d
    /\ idx' = 0
    /\ attempt' = 0
    /\ rpc' = "for"
    /\ last_err' = NoErr
    /\ callLog' = <<>>
    /\ sleeps' = <<>>
    /\ result' = NoResult
    /\ selfLog' = <<>>
    /\ UNCHANGED fn_self
    /\ UNCHANGED <<workerVars, backendVars, authVars, uiVars, threadVars, sessionVars,
                   loginVars, readmeVars>>

(***************************************************************************)
(* ApiWorker (workers.py) and its controller (main_window.py)              *)
(***************************************************************************)
Workers == 1..NumWorkers

WorkerValues == {"r1", "r2"}

WorkerErrors == {Exc("HFRepoError", NoResponse, "Failed to list repos"),
                 Exc("ValueError", NoResponse, "bad value")}

Finished(v) == [sig |-> "finished", arg |-> v]
Error(m) == [sig |-> "error", arg |-> m]

\* the signal run() has for what fn did: finished(result) or error(str(e))
SignalFor_AlwaysFinished(o) == Finished(IF o.kind = "return" THEN o.val ELSE Str(o.err))

SignalFor(o) == IF o.kind = "return" THEN Finished(o.val) ELSE Error(Str(o.err))

\* except Exception as e
CatchesException_OwnErrorsOnly(e) == IsInstance(e, {"HFRepoError"})

CatchesException(e) == IsInstance(e, {"Exception"})

\* if not self._cancelled
NotCancelled_Ignored(w) == TRUE

NotCancelled(w) == ~_cancelled[w]

\* threads: the interactive thread (the one that runs main() and the event
\* loop of app.exec()), the thread of a started QThread, and no thread
MainThread == [kind |-> "main", n |-> 0]
WorkerThread(w) == [kind |-> "worker", n |-> w]
NoThread == [kind |-> "none", n |-> 0]

\* worker.start(): run() executes in the thread the QThread object manages
start_InCallerThread(w) == MainThread

start(w) == WorkerThread(w)

\* connect(..., Qt.QueuedConnection): the call is posted to the event loop of
\* the thread the connection was made in, and runs there
QueuedConnection(w) == MainThread

InitThreadVars ==
    /\ tid = [w \in Workers |-> NoThread]
    /\ cbThread = [w \in Workers |-> NoThread]

InitWorkerVars ==
    /\ wpc = [w \in Workers |-> "unborn"]
    /\ outcome = [w \in Workers |-> NoResult]
    /\ _cancelled = [w \in Workers |-> FALSE]
    /\ signalsBlocked = [w \in Workers |-> FALSE]
    /\ busyArg = [w \in Workers |-> FALSE]
    /\ emitted = [w \in Workers |-> <<>>]
    /\ eventQueue = <<>>
    /\ delivered = [w \in Workers |-> <<>>]
    /\ _workers = {}
    /\ _busy = FALSE
    /\ mainpc = "idle"
    /\ closeList = {}
    /\ closeCur = 0
    /\ closed = FALSE

\* ApiWorker.__init__ and QThread.start: the next worker object is made, with
\* _cancelled False, and its thread enters run()
Construct(w) ==
    /\ wpc[w] = "unborn"
    /\ \A u \in Workers : u < w => wpc[u] # "unborn"
    /\ _cancelled' = [_cancelled EXCEPT ![w] = FALSE]
    /\ wpc' = [wpc EXCEPT ![w] = "running"]
    /\ tid' = [tid EXCEPT ![w] = start(w)]
    /\ UNCHANGED cbThread

\* a client other than the controller makes and starts a worker
WorkerStart(w) ==
    /\ Construct(w)
    /\ UNCHANGED <<outcome, signalsBlocked, busyArg, emitted, eventQueue, delivered,
                   _workers, _busy, mainpc, closeList, closeCur, closed>>
    /\ UNCHANGED <<nonControllerVars, uiVars>>

\* MainWindow._run_api: create the worker, connect, add to _workers,
\* _set_busy(True) if busy, worker.start()
_run_api(w, busy) ==
    /\ mainpc = "idle"
    /\ ~closed
    /\ Construct(w)
    /\ _workers' = _workers \cup {w}
    /\ busyArg' = [busyArg EXCEPT ![w] = busy]
    /\ _busy' = IF busy THEN TRUE ELSE _busy
    /\ UNCHANGED <<outcome, signalsBlocked, emitted, eventQueue,
                   delivered, mainpc, closeList, closeCur, closed>>

\* a handler of the main window calls _run_api
RunApi(w, busy) ==
    /\ _run_api(w, busy)
    /\ UNCHANGED <<nonControllerVars, uiVars>>

\* run(): result = self._fn(...) returns
FnReturn(w) ==
    /\ wpc[w] = "running"
    /\ \E v \in WorkerValues : outcome' = [outcome EXCEPT ![w] = Returned(v)]
    /\ wpc' = [wpc EXCEPT ![w] = "returned"]
    /\ UNCHANGED <<_cancelled, signalsBlocked, busyArg, emitted, eventQueue,
                   delivered, _workers, _busy, mainpc, closeList, closeCur, closed>>
    /\ UNCHANGED nonWorkerVars

\* run(): self._fn(...) raises; the except clause takes it, or it leaves run()
FnRaise(w) ==
    /\ wpc[w] = "running"
    /\ \E e \in WorkerErrors :
        /\ outcome' = [outcome EXCEPT ![w] = Raised(e)]
        /\ wpc' = [wpc EXCEPT ![w] = IF CatchesException(e) THEN "except" ELSE "escaped"]
    /\ UNCHANGED <<_cancelled, signalsBlocked, busyArg, emitted, eventQueue,
                   delivered, _workers, _busy, mainpc, closeList, closeCur, closed>>
    /\ UNCHANGED nonWorkerVars

\* run(): if not self._cancelled, on either path
CheckCancelled(w) ==
    /\ wpc[w] \in {"returned", "except"}
    /\ wpc' = [wpc EXCEPT ![w] = IF NotCancelled(w) THEN "emit" ELSE "done"]
    /\ UNCHANGED <<outcome, _cancelled, signalsBlocked, busyArg, emitted, eventQueue,
                   delivered, _workers, _busy, mainpc, closeList, closeCur, closed>>
    /\ UNCHANGED nonWorkerVars

\* what one emit does: nothing when the sender's signals are blocked; else the
\* signal goes out and its queued connection posts the call to the interactive thread
EmitTwice(w) ==
    /\ wpc[w] = "emit"
    /\ emitted' = [emitted EXCEPT ![w] = @ \o <<Finished(outcome[w].val), Error(Str(outcome[w].err))>>]
    /\ eventQueue' = eventQueue \o <<[w |-> w, signal |-> Finished(outcome[w].val)],
                                     [w |-> w, signal |-> Error(Str(outcome[w].err))]>>
    /\ wpc' = [wpc EXCEPT ![w] = "done"]
    /\ UNCHANGED <<outcome, _cancelled, signalsBlocked, busyArg,
                   delivered, _workers, _busy, mainpc, closeList, closeCur, closed>>
    /\ UNCHANGED nonWorkerVars

\* run(): self.finished.emit(result) / self.error.emit(str(e))
Emit(w) ==
    /\ wpc[w] = "emit"
    /\ IF signalsBlocked[w]
       THEN UNCHANGED <<emitted, eventQueue>>
       ELSE /\ emitted' = [emitted EXCEPT ![w] = Append(@, SignalFor(outcome[w]))]
            /\ eventQueue' = Append(eventQueue, [w |-> w, signal |-> SignalFor(outcome[w])])
    /\ wpc' = [wpc EXCEPT ![w] = "done"]
    /\ UNCHANGED <<outcome, _cancelled, signalsBlocked, busyArg,
                   delivered, _workers, _busy, mainpc, closeList, closeCur, closed>>
    /\ UNCHANGED nonWorkerVars

Cancel_Interrupts(w) ==
    /\ wpc[w] # "unborn"
    /\ ~_cancelled[w]
    /\ _cancelled' = [_cancelled EXCEPT ![w] = TRUE]
    /\ wpc' = [wpc EXCEPT ![w] = "done"]
    /\ UNCHANGED <<outcome, signalsBlocked, busyArg, emitted, eventQueue,
                   delivered, _workers, _busy, mainpc, closeList, closeCur, closed>>
    /\ UNCHANGED nonWorkerVars

\* ApiWorker.cancel
Cancel(w) ==
    /\ wpc[w] # "unborn"
    /\ ~_cancelled[w]
    /\ _cancelled' = [_cancelled EXCEPT ![w] = TRUE]
    /\ UNCHANGED <<wpc, outcome, signalsBlocked, busyArg, emitted, eventQueue,
                   delivered, _workers, _busy, mainpc, closeList, closeCur, closed>>
    /\ UNCHANGED nonWorkerVars

\* the interactive thread runs the next queued call: _on_finished / _on_error
\* of _run_api (discard the worker, _set_busy(False) if busy, the callback)
QueuedCall ==
    /\ mainpc = "idle"
    /\ eventQueue # <<>>
    /\ LET ev == Head(eventQueue) IN
        /\ _workers' = _workers \ {ev.w}
        /\ _busy' = IF busyArg[ev.w] THEN FALSE ELSE _busy
        /\ delivered' = [delivered EXCEPT ![ev.w] = Append(@, ev.signal)]
        /\ cbThread' = [cbThread EXCEPT ![ev.w] = QueuedConnection(ev.w)]
    /\ eventQueue' = Tail(eventQueue)
    /\ UNCHANGED tid
    /\ UNCHANGED <<wpc, outcome, _cancelled, signalsBlocked, busyArg, emitted,
                   mainpc, closeList, closeCur, closed>>

Deliver ==
    /\ QueuedCall
    /\ UNCHANGED <<nonControllerVars, uiVars>>

\* MainWindow.closeEvent: for worker in list(self._workers)
CloseBegin ==
    /\ mainpc = "idle"
    /\ ~closed
    /\ closeList' = _workers
    /\ mainpc' = "close_loop"
    /\ UNCHANGED <<wpc, outcome, _cancelled, signalsBlocked, busyArg, emitted,
                   eventQueue, delivered, _workers, _busy, closeCur, closed>>
    /\ UNCHANGED nonWorkerVars

\* closeEvent: worker.blockSignals(True)
CloseBlock ==
    /\ mainpc = "close_loop"
    /\ closeList # {}
    /\ \E w \in closeList :
        /\ closeCur' = w
        /\ signalsBlocked' = [signalsBlocked EXCEPT ![w] = TRUE]
    /\ mainpc' = "close_cancel"
    /\ UNCHANGED <<wpc, outcome, _cancelled, busyArg, emitted, eventQueue,
                   delivered, _workers, _busy, closeList, closed>>
    /\ UNCHANGED nonWorkerVars

CloseCancel_BlockOnly ==
    /\ mainpc = "close_cancel"
    /\ closeList' = closeList \ {closeCur}
    /\ mainpc' = "close_loop"
    /\ UNCHANGED <<wpc, outcome, _cancelled, signalsBlocked, busyArg, emitted, eventQueue,
                   delivered, _workers, _busy, closeCur, closed>>
    /\ UNCHANGED nonWorkerVars

CloseCancel_Discards ==
    /\ mainpc = "close_cancel"
    /\ _cancelled' = [_cancelled EXCEPT ![closeCur] = TRUE]
    /\ _workers' = _workers \ {closeCur}
    /\ closeList' = closeList \ {closeCur}
    /\ mainpc' = "close_loop"
    /\ UNCHANGED <<wpc, outcome, signalsBlocked, busyArg, emitted, eventQueue,
                   delivered, _busy, closeCur, closed>>
    /\ UNCHANGED nonWorkerVars

\* closeEvent: worker.cancel()
CloseCancel ==
    /\ mainpc = "close_cancel"
    /\ _cancelled' = [_cancelled EXCEPT ![closeCur] = TRUE]
    /\ closeList' = closeList \ {closeCur}
    /\ mainpc' = "close_loop"
    /\ UNCHANGED <<wpc, outcome, signalsBlocked, busyArg, emitted, eventQueue,
                   delivered, _workers, _busy, closeCur, closed>>
    /\ UNCHANGED nonWorkerVars

\* closeEvent: the loop is over; the settings are saved and the window closes
CloseEnd ==
    /\ mainpc = "close_loop"
    /\ closeList = {}
    /\ closed' = TRUE
    /\ mainpc' = "idle"
    /\ UNCHANGED <<wpc, outcome, _cancelled, signalsBlocked, busyArg, emitted,
                   eventQueue, delivered, _workers, _busy, closeList, closeCur>>
    /\ UNCHANGED nonWorkerVars

(***************************************************************************)
(* The shared client handle (hf_auth.py)                                   *)
(***************************************************************************)
\* the token strings of the model; "None" stands for None
Tokens == {"", " ", "t1", "t2"}

\* str.strip
Strip(t) == IF t = " " THEN "" ELSE t

\* token if token else None
TokenOrNone(t) == IF t = "None" \/ t = "" THEN "None" ELSE t

\* if _api_instance is None or token is not None
Installs_OnlyWhenUnset(t) == _api_instance = NoHandle

Installs(t) == _api_instance = NoHandle \/ t # "None"

\* get_api(token): what it does to the shared handle, and what it returns
get_api(w, t) ==
    /\ IF Installs(t)
       THEN /\ _api_instance' = HfApi(nextHandle, TokenOrNone(t))
            /\ nextHandle' = nextHandle + 1
       ELSE UNCHANGED <<_api_instance, nextHandle>>
    /\ apiArg' = [op |-> "get_api", caller |-> w, token |-> t]
    /\ apiRet' = [apiRet EXCEPT ![w] = _api_instance']

InitAuthVars ==
    /\ _api_instance = NoHandle
    /\ nextHandle = 1
    /\ apiArg = [op |-> "none", caller |-> 0, token |-> "None"]
    /\ apiRet = [w \in Workers |-> NoHandle]

\* a caller of hf_auth (a backend function running in worker w) calls get_api
GetApi(w, t) ==
    /\ nextHandle <= MaxHandles
    /\ get_api(w, t)
    /\ UNCHANGED <<retryVars, controllerVars, backendVars>>

\* _reset_api()
_reset_api ==
    /\ _api_instance' = NoHandle
    /\ apiArg' = [op |-> "reset", caller |-> 0, token |-> "None"]
    /\ UNCHANGED <<nextHandle, apiRet>>
    /\ UNCHANGED <<retryVars, controllerVars, backendVars>>

(***************************************************************************)
(* The backend functions.  A function is its module, the statements of its *)
(* body that matter (taking the handle, remote calls, calls of other       *)
(* backend functions) and the except clauses of its try statement, in      *)
(* order.  intry says whether the statement is inside the try.             *)
(***************************************************************************)
RequireToken == [kind |-> "require_token", name |-> "token", retry |-> FALSE, intry |-> FALSE]
GetApiStmt(arg, guarded) == [kind |-> "get_api", name |-> arg, retry |-> FALSE, intry |-> guarded]
\* api.method(...) called directly
Direct(method) == [kind |-> "remote", name |-> method, retry |-> FALSE, intry |-> TRUE]
\* with_retry(api.method, ...)
Retried(method) == [kind |-> "remote", name |-> method, retry |-> TRUE, intry |-> TRUE]
FunctionCall(f, guarded) == [kind |-> "call", name |-> f, retry |-> FALSE, intry |-> guarded]

\* except classes: raise
Reraise(classes) ==
    [catches |-> classes, do |-> "reraise", error |-> "None", text |-> "", reset |-> FALSE]
\* except classes as e: raise Error(f"prefix{e}")
Wrap(classes, error, prefix) ==
    [catches |-> classes, do |-> "wrap", error |-> error, text |-> prefix, reset |-> FALSE]
ResetAndWrap_KeepsHandle(classes, error, prefix) ==
    [catches |-> classes, do |-> "wrap", error |-> error, text |-> prefix, reset |-> FALSE]

\* except classes as e: _reset_api(); raise Error(f"prefix{e}")
ResetAndWrap(classes, error, prefix) ==
    [catches |-> classes, do |-> "wrap", error |-> error, text |-> prefix, reset |-> TRUE]
\* except classes: raise Error(message)
Replace(classes, error, message) ==
    [catches |-> classes, do |-> "replace", error |-> error, text |-> message, reset |-> FALSE]
\* except classes: return value
Swallow(classes, value) ==
    [catches |-> classes, do |-> "return", error |-> "None", text |-> value, reset |-> FALSE]
\* except classes: x = value, and the statement after the try is next
Continue(classes, value) ==
    [catches |-> classes, do |-> "continue", error |-> "None", text |-> value, reset |-> FALSE]

Def(n, mod, stmts, clauses) ==
    [name |-> n, module |-> mod, body |-> stmts, handlers |-> clauses]

\* ---- hf_auth.py ----
login ==
    Def("login", "hf_auth",
        <<RequireToken, GetApiStmt("stripped", FALSE), Direct("whoami")>>,
        <<ResetAndWrap({"Exception"}, "HFAuthError", "Login failed: ")>>)

whoami ==
    Def("whoami", "hf_auth",
        <<GetApiStmt("token", TRUE), Direct("whoami")>>,
        <<Swallow({"Exception"}, "None")>>)

\* ---- hf_repos.py ----
list_my_repos ==
    Def("list_my_repos", "hf_repos",
        <<GetApiStmt("none", FALSE), Retried("list_models")>>,
        <<Reraise({"HFRepoError"}),
          Wrap({"Exception"}, "HFRepoError", "Failed to list repos: ")>>)

create_repo ==
    Def("create_repo", "hf_repos",
        <<GetApiStmt("none", FALSE), Retried("create_repo")>>,
        <<Wrap({"Exception"}, "HFRepoError", "Failed to create repo: ")>>)

delete_repo ==
    Def("delete_repo", "hf_repos",
        <<GetApiStmt("none", FALSE), Retried("delete_repo")>>,
        <<Wrap({"Exception"}, "HFRepoError", "Failed to delete repo: ")>>)

update_repo_visibility ==
    Def("update_repo_visibility", "hf_repos",
        <<GetApiStmt("none", FALSE), Retried("update_repo_settings")>>,
        <<Wrap({"Exception"}, "HFRepoError", "Failed to update visibility: ")>>)

get_repo_info ==
    Def("get_repo_info", "hf_repos",
        <<GetApiStmt("none", FALSE), Retried("model_info")>>,
        <<Reraise({"HFRepoError"}),
          Replace({"RepositoryNotFoundError"}, "HFRepoError", "Repository not found: repo_id"),
          Wrap({"Exception"}, "HFRepoError", "Failed to get repo info: ")>>)

list_repo_files ==
    Def("list_repo_files", "hf_repos",
        <<GetApiStmt("none", FALSE), Retried("model_info")>>,
        <<Reraise({"HFRepoError"}),
          Wrap({"Exception"}, "HFRepoError", "Failed to list files: ")>>)

list_repo_refs ==
    Def("list_repo_refs", "hf_repos",
        <<GetApiStmt("none", FALSE), Retried("list_repo_refs")>>,
        <<Wrap({"Exception"}, "HFRepoError", "Failed to list refs: ")>>)

\* ---- hf_files.py ----
upload_file ==
    Def("upload_file", "hf_files",
        <<GetApiStmt("none", FALSE), Retried("upload_file")>>,
        <<Wrap({"Exception"}, "HFFileError", "Failed to upload file: ")>>)

upload_folder ==
    Def("upload_folder", "hf_files",
        <<GetApiStmt("none", FALSE), Retried("upload_folder")>>,
        <<Wrap({"Exception"}, "HFFileError", "Failed to upload folder: ")>>)

download_file ==
    Def("download_file", "hf_files",
        <<GetApiStmt("none", FALSE), Retried("hf_hub_download")>>,
        <<Wrap({"Exception"}, "HFFileError", "Failed to download file: ")>>)

delete_file ==
    Def("delete_file", "hf_files",
        <<GetApiStmt("none", FALSE), Retried("delete_file")>>,
        <<Wrap({"Exception"}, "HFFileError", "Failed to delete file: ")>>)

delete_files ==
    Def("delete_files", "hf_files",
        <<GetApiStmt("none", FALSE), Retried("create_commit")>>,
        <<Wrap({"Exception"}, "HFFileError", "Failed to delete files: ")>>)

get_file_content ==
    Def("get_file_content", "hf_files",
        <<GetApiStmt("none", FALSE), Retried("hf_hub_download")>>,
        <<Wrap({"Exception"}, "HFFileError", "Failed to get file content: ")>>)

upload_file_content ==
    Def("upload_file_content", "hf_files",
        <<GetApiStmt("none", FALSE), Retried("upload_file")>>,
        <<Wrap({"Exception"}, "HFFileError", "Failed to upload content: ")>>)

\* ---- hf_collections.py ----
list_my_collections ==
    Def("list_my_collections", "hf_collections",
        <<GetApiStmt("none", FALSE), Direct("list_collections")>>,
        <<Wrap({"Exception"}, "HFCollectionError", "Failed to list collections: ")>>)

get_collection ==
    Def("get_collection", "hf_collections",
        <<GetApiStmt("none", FALSE), Direct("get_collection")>>,
        <<Wrap({"Exception"}, "HFCollectionError", "Failed to get collection: ")>>)

create_collection ==
    Def("create_collection", "hf_collections",
        <<GetApiStmt("none", FALSE), Direct("create_collection")>>,
        <<Wrap({"Exception"}, "HFCollectionError", "Failed to create collection: ")>>)

delete_collection ==
    Def("delete_collection", "hf_collections",
        <<GetApiStmt("none", FALSE), Direct("delete_collection")>>,
        <<Wrap({"Exception"}, "HFCollectionError", "Failed to delete collection: ")>>)

add_collection_item ==
    Def("add_collection_item", "hf_collections",
        <<GetApiStmt("none", FALSE), Direct("add_collection_item"),
          FunctionCall("get_collection", TRUE)>>,
        <<Wrap({"Exception"}, "HFCollectionError", "Failed to add item: ")>>)

remove_collection_item ==
    Def("remove_collection_item", "hf_collections",
        <<GetApiStmt("none", FALSE), Direct("delete_collection_item"),
          FunctionCall("get_collection", TRUE)>>,
        <<Wrap({"Exception"}, "HFCollectionError", "Failed to remove item: ")>>)

update_collection_metadata ==
    Def("update_collection_metadata", "hf_collections",
        <<GetApiStmt("none", FALSE), Direct("update_collection_metadata")>>,
        <<Wrap({"Exception"}, "HFCollectionError", "Failed to update collection: ")>>)

\* ---- hf_model_card.py ----
get_readme ==
    Def("get_readme", "hf_model_card",
        <<FunctionCall("get_file_content", TRUE)>>,
        <<Swallow({"HFFileError"}, "")>>)

push_readme ==
    Def("push_readme", "hf_model_card",
        <<FunctionCall("upload_file_content", TRUE)>>,
        <<Wrap({"HFFileError"}, "HFModelCardError", "Failed to push README: ")>>)

\* ---- main_window.py: the operation _refresh_files gives its worker ----
fetch ==
    Def("fetch", "main_window",
        <<FunctionCall("list_repo_refs", TRUE), FunctionCall("list_repo_files", FALSE)>>,
        <<Continue({"HFRepoError"}, "main")>>)

\* the operation _on_upload gives its worker, with one file selected
do_upload ==
    Def("do_upload", "main_window",
        <<FunctionCall("upload_file", FALSE)>>,
        <<>>)

Function(f) ==
    CASE f = "login" -> login
      [] f = "whoami" -> whoami
      [] f = "list_my_repos" -> list_my_repos
      [] f = "create_repo" -> create_repo
      [] f = "delete_repo" -> delete_repo
      [] f = "update_repo_visibility" -> update_repo_visibility
      [] f = "get_repo_info" -> get_repo_info
      [] f = "list_repo_files" -> list_repo_files
      [] f = "list_repo_refs" -> list_repo_refs
      [] f = "upload_file" -> upload_file
      [] f = "upload_folder" -> upload_folder
      [] f = "download_file" -> download_file
      [] f = "delete_file" -> delete_file
      [] f = "delete_files" -> delete_files
      [] f = "get_file_content" -> get_file_content
      [] f = "upload_file_content" -> upload_file_content
      [] f = "list_my_collections" -> list_my_collections
      [] f = "get_collection" -> get_collection
      [] f = "create_collection" -> create_collection
      [] f = "delete_collection" -> delete_collection
      [] f = "add_collection_item" -> add_collection_item
      [] f = "remove_collection_item" -> remove_collection_item
      [] f = "update_collection_metadata" -> update_collection_metadata
      [] f = "get_readme" -> get_readme
      [] f = "push_readme" -> push_readme
      [] f = "fetch" -> fetch
      [] f = "do_upload" -> do_upload

\* the functions of the backend modules, and the operations the main window
\* gives to _run_api
BackendFunctions ==
    {"login", "whoami", "list_my_repos", "create_repo", "delete_repo",
     "update_repo_visibility", "get_repo_info", "list_repo_files", "list_repo_refs",
     "upload_file", "upload_folder", "download_file", "delete_file", "delete_files",
     "get_file_content", "upload_file_content", "list_my_collections",
     "get_collection", "create_collection", "delete_collection",
     "add_collection_item", "remove_collection_item", "update_collection_metadata",
     "get_readme", "push_readme"}

UiOperations ==
    {"login", "list_my_repos", "create_repo", "delete_repo", "update_repo_visibility",
     "fetch", "do_upload", "upload_file_content", "get_file_content",
     "delete_files", "download_file", "get_readme", "push_readme",
     "list_my_collections", "create_collection", "add_collection_item",
     "remove_collection_item", "delete_collection"}

\* the token arguments a function is called with
ArgTokens(f) ==
    IF f = "login" THEN Tokens
    ELSE IF f = "whoami" THEN Tokens \cup {"None"}
    ELSE {"None"}

(***************************************************************************)
(* Running one backend function: its frames, the remote calls (directly or *)
(* through with_retry) and the propagation of an exception through the     *)
(* except clauses of every frame.                                          *)
(***************************************************************************)
Frame(f) == [fn |-> f, pos |-> 1, api |-> NoHandle]
Top == stack[Len(stack)]
TopDef == Function(Top.fn)
Stmt == TopDef.body[Top.pos]
HasStmt == stack # <<>> /\ Top.pos <= Len(TopDef.body)
Pop == SubSeq(stack, 1, Len(stack) - 1)
\* the top frame moves to its next statement
Advance == [stack EXCEPT ![Len(stack)].pos = @ + 1]
\* the top frame is popped and its caller moves to its next statement
PopAdvance == [Pop EXCEPT ![Len(stack) - 1].pos = @ + 1]

KindOf(o) ==
    IF o.kind = "return" THEN "ok"
    ELSE IF TransientFailure(o.err) THEN "transient" ELSE "permanent"

RECURSIVE KindsOf(_)
KindsOf(log) == IF log = <<>> THEN <<>> ELSE <<KindOf(Head(log))>> \o KindsOf(Tail(log))

InitBackendVars ==
    /\ called = "None"
    /\ stack = <<>>
    /\ bpc = "idle"
    /\ argToken = "None"
    /\ exc = NoErr
    /\ retval = "None"
    /\ bresult = NoResult
    /\ cause = NoErr
    /\ inner = NoErr
    /\ layers = <<>>
    /\ remoteKinds = <<>>

\* the function is called
BackendCall(f, t) ==
    /\ bpc = "idle"
    /\ called' = f
    /\ stack' = <<Frame(f)>>
    /\ argToken' = t
    /\ bpc' = "run"
    /\ UNCHANGED <<exc, retval, bresult, cause, inner, layers, remoteKinds>>
    /\ UNCHANGED <<retryVars, controllerVars, authVars>>

\* login: token = token.strip(); if not token: raise HFAuthError(...)
StepRequireToken ==
    /\ bpc = "run" /\ HasStmt /\ Stmt.kind = "require_token"
    /\ IF Strip(argToken) = ""
       THEN /\ exc' = Exc("HFAuthError", NoResponse, "Token cannot be empty.")
            /\ bpc' = "raising"
            /\ UNCHANGED stack
       ELSE /\ stack' = Advance
            /\ UNCHANGED <<exc, bpc>>
    /\ UNCHANGED <<called, argToken, retval, bresult, cause, inner, layers, remoteKinds>>
    /\ UNCHANGED <<retryVars, controllerVars, authVars>>

\* api = get_api() / get_api(token)
StepGetApi ==
    /\ bpc = "run" /\ HasStmt /\ Stmt.kind = "get_api"
    /\ get_api(1, CASE Stmt.name = "none" -> "None"
                 [] Stmt.name = "stripped" -> Strip(argToken)
                 [] Stmt.name = "token" -> argToken)
    /\ stack' = [Advance EXCEPT ![Len(stack)].api = _api_instance']
    /\ UNCHANGED <<called, bpc, argToken, exc, retval, bresult, cause, inner, layers, remoteKinds>>
    /\ UNCHANGED <<retryVars, controllerVars>>

\* api.method(...) called directly: it returns or raises
StepDirect ==
    /\ bpc = "run" /\ HasStmt /\ Stmt.kind = "remote" /\ ~Stmt.retry
    /\ \E o \in FnOutcomes :
        /\ remoteKinds' = Append(remoteKinds, KindOf(o))
        /\ IF o.kind = "return"
           THEN /\ retval' = o.val
                /\ stack' = Advance
                /\ UNCHANGED <<bpc, exc, cause, inner, layers>>
           ELSE /\ exc' = o.err
                /\ cause' = o.err
                /\ inner' = NoErr
                /\ layers' = <<>>
                /\ bpc' = "raising"
                /\ UNCHANGED <<stack, retval>>
    /\ UNCHANGED <<called, argToken, bresult>>
    /\ UNCHANGED <<retryVars, controllerVars, authVars>>

\* with_retry(api.method, ...) is entered: retries and delay take their
\* defaults, the locals are fresh
StepWithRetry ==
    /\ bpc = "run" /\ HasStmt /\ Stmt.kind = "remote" /\ Stmt.retry
    /\ retries' = DefaultRetries
    /\ delay' = DefaultDelay
    /\ idx' = 0
    /\ attempt' = 0
    /\ rpc' = "for"
    /\ last_err' = NoErr
    /\ callLog' = <<>>
    /\ sleeps' = <<>>
    /\ result' = NoResult
    /\ fn_self' = Top.api
    /\ selfLog' = <<>>
    /\ bpc' = "retry"
    /\ UNCHANGED <<called, stack, argToken, exc, retval, bresult, cause, inner, layers, remoteKinds>>
    /\ UNCHANGED <<controllerVars, authVars>>

\* a step inside with_retry
WithRetryStep ==
    /\ bpc = "retry"
    /\ ForIter \/ TryCall \/ Sleep \/ Exhausted

\* with_retry has returned or raised
WithRetryEnd ==
    /\ bpc = "retry"
    /\ rpc \in {"returned", "raised"}
    /\ remoteKinds' = remoteKinds \o KindsOf(callLog)
    /\ IF result.kind = "return"
       THEN /\ retval' = result.val
            /\ stack' = Advance
            /\ bpc' = "run"
            /\ UNCHANGED <<exc, cause, inner, layers>>
       ELSE /\ exc' = result.err
            /\ cause' = result.err
            /\ inner' = NoErr
            /\ layers' = <<>>
            /\ bpc' = "raising"
            /\ UNCHANGED <<stack, retval>>
    /\ UNCHANGED <<called, argToken, bresult>>
    /\ UNCHANGED <<retryVars, controllerVars, authVars>>

\* another backend function is called
StepCall ==
    /\ bpc = "run" /\ HasStmt /\ Stmt.kind = "call"
    /\ stack' = Append(stack, Frame(Stmt.name))
    /\ UNCHANGED <<called, bpc, argToken, exc, retval, bresult, cause, inner, layers, remoteKinds>>
    /\ UNCHANGED <<retryVars, controllerVars, authVars>>

\* the function returns (its value is made from the result of its last call)
FunctionReturn ==
    /\ bpc = "run" /\ stack # <<>> /\ ~HasStmt
    /\ IF Len(stack) = 1
       THEN /\ stack' = <<>>
            /\ bresult' = Returned(retval)
            /\ bpc' = "done"
       ELSE /\ stack' = PopAdvance
            /\ UNCHANGED <<bresult, bpc>>
    /\ UNCHANGED <<called, argToken, exc, retval, cause, inner, layers, remoteKinds>>
    /\ UNCHANGED <<retryVars, controllerVars, authVars>>

\* the except clauses of the top frame that take the propagating exception;
\* none when the statement that raised is outside the try
Matching ==
    IF Stmt.intry
    THEN {i \in 1..Len(TopDef.handlers) : IsInstance(exc, TopDef.handlers[i].catches)}
    ELSE {}

FirstMatching == CHOOSE i \in Matching : \A j \in Matching : i <= j

\* the exception leaves the top frame: to the caller's frame, or out of the
\* outermost function
Leave(e) ==
    /\ exc' = e
    /\ stack' = Pop
    /\ IF Len(stack) = 1
       THEN bresult' = Raised(e) /\ bpc' = "done"
       ELSE UNCHANGED <<bresult, bpc>>
    /\ UNCHANGED retval

\* one frame deals with the propagating exception
Except ==
    /\ bpc = "raising"
    /\ IF Matching = {}
       THEN /\ Leave(exc)
            /\ UNCHANGED <<inner, layers, _api_instance>>
       ELSE LET c == TopDef.handlers[FirstMatching] IN
            CASE c.do = "reraise" ->
                    /\ Leave(exc)
                    /\ UNCHANGED <<inner, layers, _api_instance>>
              [] c.do = "wrap" ->
                    /\ Leave(Exc(c.error, NoResponse, c.text \o Str(exc)))
                    /\ inner' = exc
                    /\ layers' = Append(layers, TopDef.module)
                    /\ _api_instance' = IF c.reset THEN NoHandle ELSE _api_instance
              [] c.do = "replace" ->
                    /\ Leave(Exc(c.error, NoResponse, c.text))
                    /\ inner' = exc
                    /\ layers' = Append(layers, TopDef.module)
                    /\ UNCHANGED _api_instance
              [] c.do = "return" ->
                    /\ exc' = NoErr
                    /\ retval' = c.text
                    /\ IF Len(stack) = 1
                       THEN stack' = <<>> /\ bresult' = Returned(c.text) /\ bpc' = "done"
                       ELSE stack' = PopAdvance /\ bpc' = "run" /\ UNCHANGED bresult
                    /\ UNCHANGED <<inner, layers, _api_instance>>
              [] c.do = "continue" ->
                    /\ exc' = NoErr
                    /\ retval' = c.text
                    /\ stack' = Advance
                    /\ bpc' = "run"
                    /\ UNCHANGED <<bresult, inner, layers, _api_instance>>
    /\ UNCHANGED <<called, argToken, cause, remoteKinds>>
    /\ UNCHANGED <<nextHandle, apiArg, apiRet>>
    /\ UNCHANGED <<retryVars, controllerVars>>

(***************************************************************************)
(* The call sites of _run_api in the main window: the operation, the busy  *)
(* argument, and what the on_error argument does with the message:         *)
(* "default" (no on_error: QMessageBox.critical(self, "Error", msg)),      *)
(* "dialog" (QMessageBox.critical with the site's title), "status" (a      *)
(* status bar message) or "placeholder" (a text in the README view).       *)
(***************************************************************************)
CallSite(n, f, b, h, ttl) ==
    [name |-> n, fn |-> f, busy |-> b, on_error |-> h, title |-> ttl]

_try_auto_login == CallSite("_try_auto_login", "login", FALSE, "status", "")
_on_login == CallSite("_on_login", "login", TRUE, "dialog", "Login failed")
_refresh_repos == CallSite("_refresh_repos", "list_my_repos", FALSE, "default", "Error")
_on_create_repo == CallSite("_on_create_repo", "create_repo", TRUE, "dialog", "Create failed")
_on_delete_repo == CallSite("_on_delete_repo", "delete_repo", TRUE, "dialog", "Delete failed")
_on_toggle_visibility ==
    CallSite("_on_toggle_visibility", "update_repo_visibility", TRUE, "default", "Error")
_refresh_files == CallSite("_refresh_files", "fetch", FALSE, "default", "Error")
_on_upload == CallSite("_on_upload", "do_upload", TRUE, "dialog", "Upload failed")
_on_edit_file_save ==
    CallSite("_on_edit_file_save", "upload_file_content", TRUE, "dialog", "Save failed")
_on_edit_file == CallSite("_on_edit_file", "get_file_content", TRUE, "dialog", "Error")
_on_delete_files == CallSite("_on_delete_files", "delete_files", TRUE, "dialog", "Delete failed")
_on_download_file ==
    CallSite("_on_download_file", "download_file", TRUE, "dialog", "Download failed")
_load_readme == CallSite("_load_readme", "get_readme", FALSE, "placeholder", "")
_on_edit_readme == CallSite("_on_edit_readme", "push_readme", TRUE, "dialog", "Save failed")
_on_new_model_card ==
    CallSite("_on_new_model_card", "push_readme", TRUE, "dialog", "Push failed")
_refresh_collections ==
    CallSite("_refresh_collections", "list_my_collections", FALSE, "default", "Error")
_on_create_collection ==
    CallSite("_on_create_collection", "create_collection", TRUE, "default", "Error")
_on_add_to_collection ==
    CallSite("_on_add_to_collection", "add_collection_item", TRUE, "default", "Error")
_on_remove_from_collection ==
    CallSite("_on_remove_from_collection", "remove_collection_item", TRUE, "default", "Error")
_on_delete_collection ==
    CallSite("_on_delete_collection", "delete_collection", TRUE, "default", "Error")

CallSites ==
    {_try_auto_login, _on_login, _refresh_repos, _on_create_repo, _on_delete_repo,
     _on_toggle_visibility, _refresh_files, _on_upload, _on_edit_file_save,
     _on_edit_file, _on_delete_files, _on_download_file, _load_readme,
     _on_edit_readme, _on_new_model_card, _refresh_collections,
     _on_create_collection, _on_add_to_collection, _on_remove_from_collection,
     _on_delete_collection}

NoSite == CallSite("None", "None", FALSE, "default", "")

\* the token a call site passes to its operation: the text of the token
\* field, a saved token (one that a login accepted), or nothing
SiteTokens(s) ==
    IF s.name = "_on_login" THEN Tokens
    ELSE IF s.name = "_try_auto_login" THEN {t \in Tokens : Strip(t) # ""}
    ELSE {"None"}

InitUiVars ==
    /\ site = [w \in Workers |-> NoSite]
    /\ dialogs = <<>>
    /\ statusBar = ""
    /\ readmeView = ""

\* the repositories of the user
Repo(id, type) == [id |-> id, type |-> type]
Repos == {Repo("r1", "model"), Repo("r1", "dataset"), Repo("r2", "model")}

\* no repository: no current item, an empty file browser, an empty view
NoRepo == Repo("", "None")

\* README texts; "" is an empty or absent README
PushedContents == {"c1"}
RemoteContents == {"c0"} \cup PushedContents

\* no entry for the key in _readme_cache
NoEntry == "None"

(***************************************************************************)
(* The session of the main window: the user, the saved token, the buttons  *)
(* of the login bar, and the workers of the handlers that log in, log out  *)
(* and list.  Worker objects are named by slots: the slot of a worker      *)
(* whose callback has run is free for the next ApiWorker.                  *)
(***************************************************************************)
Slots == 1..NumSlots

\* the tokens the hub accepts, and the user of a token
ValidTokens == {"t1"}
User(t) == IF t = "t1" THEN "u1" ELSE "None"

\* the token the settings hold when the program starts: none, one the hub
\* still accepts, or one it has revoked
SavedTokens == {"", "t1", "t2"}

NoArgs == [token |-> "None", repo |-> "None", content |-> "None"]
TokenArg(t) == [token |-> t, repo |-> "None", content |-> "None"]

\* a call of _run_api: the call site and the arguments of its operation
Request(s, a) == [site |-> s, args |-> a]

\* the slots free for new workers once the workers of released are dropped
FreeSlots(released) == {w \in Slots : wpc[w] = "unborn" \/ w \in released}

RECURSIVE Lowest(_, _)
Lowest(S, k) ==
    IF k = 0 \/ S = {} THEN <<>>
    ELSE LET least == CHOOSE x \in S : \A y \in S : x <= y
         IN  <<least>> \o Lowest(S \ {least}, k - 1)

\* _run_api, once for every request: ApiWorker(fn, *args), connect,
\* _workers.add(worker), worker.start(); the workers of released are dropped
Dispatch(released, reqs) ==
    LET new == Lowest(FreeSlots(released), Len(reqs))
        IsNew(w) == \E i \in 1..Len(new) : new[i] = w
        Req(w) == reqs[CHOOSE i \in 1..Len(new) : new[i] = w]
    IN  /\ Cardinality(FreeSlots(released)) >= Len(reqs)
        /\ wpc' = [w \in Slots |-> IF IsNew(w) THEN "running"
                                   ELSE IF w \in released THEN "unborn" ELSE wpc[w]]
        /\ site' = [w \in Slots |-> IF IsNew(w) THEN Req(w).site
                                    ELSE IF w \in released THEN NoSite ELSE site[w]]
        /\ wargs' = [w \in Slots |-> IF IsNew(w) THEN Req(w).args
                                     ELSE IF w \in released THEN NoArgs ELSE wargs[w]]
        /\ busyArg' = [w \in Slots |-> IF IsNew(w) THEN Req(w).site.busy
                                       ELSE IF w \in released THEN FALSE ELSE busyArg[w]]
        /\ outcome' = [w \in Slots |-> IF IsNew(w) \/ w \in released THEN NoResult
                                       ELSE outcome[w]]
        /\ tid' = [w \in Slots |-> IF IsNew(w) THEN start(w)
                                   ELSE IF w \in released THEN NoThread ELSE tid[w]]
        /\ lpc' = [w \in Slots |-> IF IsNew(w) \/ w \in released THEN "entry" ELSE lpc[w]]
        /\ lapi' = [w \in Slots |-> IF IsNew(w) \/ w \in released THEN NoHandle ELSE lapi[w]]
        /\ _workers' = (_workers \ released) \cup {w \in Slots : IsNew(w)}

\* no session: the main window of the other specifications, where nobody
\* logs in
InitSessionVars ==
    /\ _user = "None"
    /\ hf_token = ""
    /\ btn_login = TRUE
    /\ btn_logout = FALSE
    /\ actions_enabled = TRUE
    /\ _all_repos = "empty"
    /\ collections = "empty"
    /\ wargs = [w \in Workers |-> [token |-> "None", repo |-> "None", content |-> "None"]]
    /\ nlogins = 0
    /\ loginResults = <<>>
    /\ loggedOut = FALSE
    /\ lpc = [w \in Workers |-> "entry"]
    /\ lapi = [w \in Workers |-> NoHandle]
    /\ _current_repo_id = ""
    /\ _current_repo_type = "model"
    /\ tree_item = NoRepo
    /\ _readme_cache = [r \in Repos |-> NoEntry]
    /\ remote_readme = [r \in Repos |-> "c0"]
    /\ browser_repo = NoRepo
    /\ view_repo = NoRepo
    /\ lastPush = [r \in Repos |-> NoEntry]
    /\ nops = 0

\* _try_auto_login: a worker for login(token), when there is a token
AutoLoginRequests(t) ==
    IF t = "" THEN <<>> ELSE <<Request(_try_auto_login, TokenArg(t))>>

\* MainWindow.__init__, with _try_auto_login at its end
InitSession ==
    /\ retries = DefaultRetries
    /\ delay = DefaultDelay
    /\ InitRetryVars
    /\ InitBackendVars
    /\ calls = 0
    /\ hf_token \in SavedTokens
    /\ LET auto == hf_token # "" IN
        /\ wpc = [w \in Slots |-> IF auto /\ w = 1 THEN "running" ELSE "unborn"]
        /\ site = [w \in Slots |-> IF auto /\ w = 1 THEN _try_auto_login ELSE NoSite]
        /\ wargs = [w \in Slots |-> IF auto /\ w = 1 THEN TokenArg(hf_token) ELSE NoArgs]
        /\ tid = [w \in Slots |-> IF auto /\ w = 1 THEN start(w) ELSE NoThread]
        /\ _workers = IF auto THEN {1} ELSE {}
        /\ nlogins = IF auto THEN 1 ELSE 0
    /\ busyArg = [w \in Slots |-> FALSE]
    /\ outcome = [w \in Slots |-> NoResult]
    /\ lpc = [w \in Slots |-> "entry"]
    /\ lapi = [w \in Slots |-> NoHandle]
    /\ _cancelled = [w \in Slots |-> FALSE]
    /\ signalsBlocked = [w \in Slots |-> FALSE]
    /\ emitted = [w \in Slots |-> <<>>]
    /\ delivered = [w \in Slots |-> <<>>]
    /\ cbThread = [w \in Slots |-> NoThread]
    /\ apiRet = [w \in Slots |-> NoHandle]
    /\ eventQueue = <<>>
    /\ _busy = FALSE
    /\ mainpc = "idle"
    /\ closeList = {}
    /\ closeCur = 0
    /\ closed = FALSE
    /\ _api_instance = NoHandle
    /\ nextHandle = 1
    /\ apiArg = [op |-> "none", caller |-> 0, token |-> "None"]
    /\ dialogs = <<>>
    /\ statusBar = ""
    /\ readmeView = ""
    /\ _user = "None"
    /\ btn_login = TRUE
    /\ btn_logout = FALSE
    /\ actions_enabled = TRUE
    /\ _all_repos = "empty"
    /\ collections = "empty"
    /\ loginResults = <<>>
    /\ loggedOut = FALSE
    /\ _current_repo_id = ""
    /\ _current_repo_type = "model"
    /\ tree_item = NoRepo
    /\ _readme_cache = [r \in Repos |-> NoEntry]
    /\ remote_readme = [r \in Repos |-> "c0"]
    /\ browser_repo = NoRepo
    /\ view_repo = NoRepo
    /\ lastPush = [r \in Repos |-> NoEntry]
    /\ nops = 0

\* what no action of a session touches
baseFrame == <<retryVars, backendVars, callerVars, _cancelled, signalsBlocked,
               emitted, delivered, cbThread, apiRet, mainpc, closeList, closeCur,
               closed>>

\* what the authentication handlers, their callbacks and their workers never
\* touch
sessionFrame == <<baseFrame, readmeView, readmeVars>>

\* ---- the handlers ----

\* _set_busy(True)
SetBusy ==
    /\ _busy' = TRUE
    /\ btn_login' = FALSE
    /\ btn_logout' = FALSE
    /\ actions_enabled' = FALSE

\* _on_login: the dialog is accepted with token t; _run_api(login, (token,))
OnLogin(t) ==
    /\ mainpc = "idle"
    /\ btn_login
    /\ nlogins < MaxLogins
    /\ nlogins' = nlogins + 1
    /\ Dispatch({}, <<Request(_on_login, TokenArg(t))>>)
    /\ SetBusy
    /\ statusBar' = "Logging in..."
    /\ loggedOut' = FALSE
    /\ UNCHANGED <<_user, hf_token, _all_repos, collections, loginResults>>
    /\ UNCHANGED <<eventQueue, dialogs, _api_instance, nextHandle, apiArg>>
    /\ UNCHANGED sessionFrame

\* _on_logout
OnLogout ==
    /\ mainpc = "idle"
    /\ btn_logout
    /\ _user' = "None"
    /\ hf_token' = ""
    /\ _all_repos' = "empty"
    /\ collections' = "empty"
    /\ btn_login' = TRUE
    /\ btn_logout' = FALSE
    /\ statusBar' = "Logged out."
    /\ loggedOut' = TRUE
    /\ UNCHANGED <<_busy, actions_enabled, nlogins, loginResults>>
    /\ UNCHANGED <<wpc, site, wargs, busyArg, outcome, tid, lpc, lapi, _workers>>
    /\ _readme_cache' = [r \in Repos |-> NoEntry]
    /\ tree_item' = NoRepo
    /\ browser_repo' = NoRepo
    /\ readmeView' = ""
    /\ view_repo' = NoRepo
    /\ _current_repo_id' = ""
    /\ UNCHANGED <<eventQueue, dialogs, _api_instance, nextHandle, apiArg>>
    /\ UNCHANGED <<_current_repo_type, remote_readme, lastPush, nops>>
    /\ UNCHANGED baseFrame

\* ---- the worker threads ----

\* run() from the point where self._fn has returned or raised o: no cancel()
\* is called in a session, so the signal is emitted and its call is queued
EndRun(w, o) ==
    /\ outcome' = [outcome EXCEPT ![w] = o]
    /\ wpc' = [wpc EXCEPT ![w] = "done"]
    /\ eventQueue' = Append(eventQueue, [w |-> w, signal |-> SignalFor(o)])

sessionThreadFrame ==
    <<site, wargs, busyArg, tid, _workers, _busy, dialogs, statusBar, _user, hf_token,
      btn_login, btn_logout, actions_enabled, _all_repos, collections, nlogins,
      loginResults, loggedOut>>

\* login: token = token.strip(); if not token: raise HFAuthError(...)
LoginStrip(w) ==
    /\ wpc[w] = "running" /\ site[w].fn = "login" /\ lpc[w] = "entry"
    /\ IF Strip(wargs[w].token) = ""
       THEN /\ EndRun(w, Raised(Exc("HFAuthError", NoResponse, "Token cannot be empty.")))
            /\ UNCHANGED lpc
       ELSE /\ lpc' = [lpc EXCEPT ![w] = "get_api"]
            /\ UNCHANGED <<outcome, wpc, eventQueue>>
    /\ UNCHANGED <<lapi, _api_instance, nextHandle, apiArg>>
    /\ UNCHANGED <<sessionThreadFrame, sessionFrame>>

\* get_api(token), token not None: _api_instance = HfApi(token=token)
LoginGetApiStore(w) ==
    /\ wpc[w] = "running" /\ site[w].fn = "login" /\ lpc[w] = "get_api"
    /\ nextHandle <= MaxHandles
    /\ _api_instance' = HfApi(nextHandle, TokenOrNone(Strip(wargs[w].token)))
    /\ nextHandle' = nextHandle + 1
    /\ apiArg' = [op |-> "get_api", caller |-> w, token |-> Strip(wargs[w].token)]
    /\ lpc' = [lpc EXCEPT ![w] = "return"]
    /\ UNCHANGED <<lapi, outcome, wpc, eventQueue>>
    /\ UNCHANGED <<sessionThreadFrame, sessionFrame>>

\* get_api: return _api_instance, the global as it is now; api = ...
LoginGetApiReturn(w) ==
    /\ wpc[w] = "running" /\ site[w].fn = "login" /\ lpc[w] = "return"
    /\ lapi' = [lapi EXCEPT ![w] = _api_instance]
    /\ lpc' = [lpc EXCEPT ![w] = "whoami"]
    /\ UNCHANGED <<outcome, wpc, eventQueue, _api_instance, nextHandle, apiArg>>
    /\ UNCHANGED <<sessionThreadFrame, sessionFrame>>

\* api.whoami(): the hub answers for the token of the handle it is called on
WhoamiOutcomes(h) ==
    IF h = NoHandle
    THEN {Raised(Exc("AttributeError", NoResponse,
                     "'NoneType' object has no attribute 'whoami'"))}
    ELSE IF h.token \in ValidTokens
         THEN {Returned(User(h.token)), Raised(Exc("ConnectError", NoResponse, "ConnectError"))}
         ELSE {Raised(Exc("HfHubHTTPError", Response(401), "Invalid user token."))}

\* info = api.whoami(), and on success return UserInfo(...)
LoginWhoami(w) ==
    /\ wpc[w] = "running" /\ site[w].fn = "login" /\ lpc[w] = "whoami"
    /\ \E o \in WhoamiOutcomes(lapi[w]) :
        IF o.kind = "return"
        THEN /\ EndRun(w, o)
             /\ lpc' = [lpc EXCEPT ![w] = "returned"]
        ELSE /\ outcome' = [outcome EXCEPT ![w] = o]
             /\ lpc' = [lpc EXCEPT ![w] = "except"]
             /\ UNCHANGED <<wpc, eventQueue>>
    /\ UNCHANGED <<lapi, _api_instance, nextHandle, apiArg>>
    /\ UNCHANGED <<sessionThreadFrame, sessionFrame>>

\* except Exception as e: _reset_api(); raise HFAuthError(f"Login failed: {e}")
LoginExcept(w) ==
    /\ wpc[w] = "running" /\ site[w].fn = "login" /\ lpc[w] = "except"
    /\ _api_instance' = NoHandle
    /\ apiArg' = [op |-> "reset", caller |-> w, token |-> "None"]
    /\ EndRun(w, Raised(Exc("HFAuthError", NoResponse,
                            "Login failed: " \o Str(outcome[w].err))))
    /\ lpc' = [lpc EXCEPT ![w] = "raised"]
    /\ UNCHANGED <<lapi, nextHandle>>
    /\ UNCHANGED <<sessionThreadFrame, sessionFrame>>

\* login in a worker whose steps no other thread interleaves with
RunLogin(w) ==
    /\ wpc[w] = "running" /\ site[w].fn = "login"
    /\ LET token == Strip(wargs[w].token)
           api == HfApi(nextHandle, TokenOrNone(token))
       IN IF token = ""
          THEN /\ EndRun(w, Raised(Exc("HFAuthError", NoResponse, "Token cannot be empty.")))
               /\ UNCHANGED <<_api_instance, nextHandle, apiArg>>
          ELSE /\ nextHandle <= MaxHandles
               /\ nextHandle' = nextHandle + 1
               /\ \E o \in WhoamiOutcomes(api) :
                    IF o.kind = "return"
                    THEN /\ _api_instance' = api
                         /\ apiArg' = [op |-> "get_api", caller |-> w, token |-> token]
                         /\ EndRun(w, o)
                    ELSE /\ _api_instance' = NoHandle
                         /\ apiArg' = [op |-> "reset", caller |-> w, token |-> "None"]
                         /\ EndRun(w, Raised(Exc("HFAuthError", NoResponse,
                                                 "Login failed: " \o Str(o.err))))
    /\ UNCHANGED <<lpc, lapi>>
    /\ UNCHANGED <<sessionThreadFrame, sessionFrame>>

\* list_my_repos / list_my_collections in a worker: api = get_api(), the
\* remote call, and the rest of run()
ListingOutcomes(f) ==
    IF f = "list_my_repos"
    THEN {Returned("repos"), Raised(Exc("HFRepoError", NoResponse, "Failed to list repos"))}
    ELSE {Returned("collections"),
          Raised(Exc("HFCollectionError", NoResponse, "Failed to list collections"))}

RunListing(w) ==
    /\ wpc[w] = "running" /\ site[w].fn \in {"list_my_repos", "list_my_collections"}
    /\ IF _api_instance = NoHandle
       THEN /\ nextHandle <= MaxHandles
            /\ _api_instance' = HfApi(nextHandle, "None")
            /\ nextHandle' = nextHandle + 1
       ELSE UNCHANGED <<_api_instance, nextHandle>>
    /\ apiArg' = [op |-> "get_api", caller |-> w, token |-> "None"]
    /\ \E o \in ListingOutcomes(site[w].fn) : EndRun(w, o)
    /\ UNCHANGED <<lpc, lapi>>
    /\ UNCHANGED <<sessionThreadFrame, sessionFrame>>

\* ---- the callbacks ----

\* _refresh_repos and _refresh_collections: a worker each, when a user is set
RefreshRequests(user) ==
    IF user = "None" THEN <<>>
    ELSE <<Request(_refresh_repos, NoArgs), Request(_refresh_collections, NoArgs)>>

\* _set_busy(False), when the worker was started with busy
ClearBusy(busy) ==
    /\ _busy' = IF busy THEN FALSE ELSE _busy
    /\ actions_enabled' = IF busy THEN TRUE ELSE actions_enabled

\* _on_finished of a login worker: _on_login_success(user, token)
OnLoginSuccess(w, user) ==
    /\ ClearBusy(busyArg[w])
    /\ _user' = user
    /\ hf_token' = wargs[w].token
    /\ btn_login' = FALSE
    /\ btn_logout' = TRUE
    /\ statusBar' = "Loading collections..."
    /\ Dispatch({w}, RefreshRequests(user))
    /\ loginResults' = Append(loginResults,
                              [site |-> site[w].name, token |-> wargs[w].token, ok |-> TRUE])
    /\ UNCHANGED <<dialogs, _all_repos, collections>>

\* _on_error of a login worker: _on_auto_login_fail, or the dialog of _on_login
OnLoginError(w, msg) ==
    /\ ClearBusy(busyArg[w])
    /\ btn_login' = IF busyArg[w] THEN _user = "None" ELSE btn_login
    /\ btn_logout' = IF busyArg[w] THEN _user # "None" ELSE btn_logout
    /\ IF site[w].on_error = "status"
       THEN /\ hf_token' = ""
            /\ statusBar' = "Saved token is no longer valid - please log in again."
            /\ UNCHANGED dialogs
       ELSE /\ dialogs' = Append(dialogs, [title |-> site[w].title, text |-> msg])
            /\ statusBar' = ""
            /\ UNCHANGED hf_token
    /\ Dispatch({w}, <<>>)
    /\ loginResults' = Append(loginResults,
                              [site |-> site[w].name, token |-> wargs[w].token, ok |-> FALSE])
    /\ UNCHANGED <<_user, _all_repos, collections>>

\* _on_finished / _on_error of a listing worker
OnListing(w, signal) ==
    /\ ClearBusy(busyArg[w])
    /\ btn_login' = IF busyArg[w] THEN _user = "None" ELSE btn_login
    /\ btn_logout' = IF busyArg[w] THEN _user # "None" ELSE btn_logout
    /\ IF signal.sig = "finished"
       THEN /\ _all_repos' = IF site[w].fn = "list_my_repos" THEN "listed" ELSE _all_repos
            /\ collections' = IF site[w].fn = "list_my_collections" THEN "listed"
                              ELSE collections
            /\ statusBar' = "Loaded."
            /\ UNCHANGED dialogs
       ELSE /\ dialogs' = Append(dialogs, [title |-> "Error", text |-> signal.arg])
            /\ statusBar' = ""
            /\ UNCHANGED <<_all_repos, collections>>
    /\ Dispatch({w}, <<>>)
    /\ UNCHANGED <<_user, hf_token, loginResults>>

\* the interactive thread runs the next queued call
SessionDeliver ==
    /\ mainpc = "idle"
    /\ eventQueue # <<>>
    /\ LET ev == Head(eventQueue) IN
        IF site[ev.w].fn = "login"
        THEN IF ev.signal.sig = "finished"
             THEN OnLoginSuccess(ev.w, ev.signal.arg)
             ELSE OnLoginError(ev.w, ev.signal.arg)
        ELSE OnListing(ev.w, ev.signal)
    /\ eventQueue' = Tail(eventQueue)
    /\ UNCHANGED <<nlogins, loggedOut, _api_instance, nextHandle, apiArg>>
    /\ UNCHANGED sessionFrame

(***************************************************************************)
(* The README of the selected repository: the view, the cache, and the     *)
(* workers that load and push it.                                          *)
(***************************************************************************)
RepoArg(r) == [token |-> "None", repo |-> r, content |-> "None"]
PushArg(r, c) == [token |-> "None", repo |-> r, content |-> c]

\* content if content else "(No README.md found)"
Shown(content) == IF content = "" THEN "(No README.md found)" ELSE content

\* a main window whose user has logged in and whose lists are loaded, no
\* repository selected and no worker running
InitReadme ==
    /\ retries = DefaultRetries
    /\ delay = DefaultDelay
    /\ InitRetryVars
    /\ InitBackendVars
    /\ calls = 0
    /\ hf_token = "t1"
    /\ wpc = [w \in Slots |-> "unborn"]
    /\ site = [w \in Slots |-> NoSite]
    /\ wargs = [w \in Slots |-> NoArgs]
    /\ tid = [w \in Slots |-> NoThread]
    /\ _workers = {}
    /\ nlogins = 1
    /\ busyArg = [w \in Slots |-> FALSE]
    /\ outcome = [w \in Slots |-> NoResult]
    /\ lpc = [w \in Slots |-> "entry"]
    /\ lapi = [w \in Slots |-> NoHandle]
    /\ _cancelled = [w \in Slots |-> FALSE]
    /\ signalsBlocked = [w \in Slots |-> FALSE]
    /\ emitted = [w \in Slots |-> <<>>]
    /\ delivered = [w \in Slots |-> <<>>]
    /\ cbThread = [w \in Slots |-> NoThread]
    /\ apiRet = [w \in Slots |-> NoHandle]
    /\ eventQueue = <<>>
    /\ _busy = FALSE
    /\ mainpc = "idle"
    /\ closeList = {}
    /\ closeCur = 0
    /\ closed = FALSE
    /\ _api_instance = HfApi(1, "t1")
    /\ nextHandle = 2
    /\ apiArg = [op |-> "get_api", caller |-> 1, token |-> "t1"]
    /\ dialogs = <<>>
    /\ statusBar = ""
    /\ readmeView = ""
    /\ _user = "u1"
    /\ btn_login = FALSE
    /\ btn_logout = TRUE
    /\ actions_enabled = TRUE
    /\ _all_repos = "listed"
    /\ collections = "listed"
    /\ loginResults = <<[site |-> "_on_login", token |-> "t1", ok |-> TRUE]>>
    /\ loggedOut = FALSE
    /\ _current_repo_id = ""
    /\ _current_repo_type = "model"
    /\ tree_item = NoRepo
    /\ _readme_cache = [r \in Repos |-> NoEntry]
    /\ remote_readme \in [Repos -> {"c0"}]
    /\ browser_repo = NoRepo
    /\ view_repo = NoRepo
    /\ lastPush = [r \in Repos |-> NoEntry]
    /\ nops = 0

\* what the README handlers, callbacks and workers never touch
readmeFrame ==
    <<baseFrame, _user, hf_token, _all_repos, collections, nlogins, loginResults, loggedOut,
      _api_instance, nextHandle, apiArg>>

\* _set_busy(False), when the worker was started with busy
ClearBusyAll(busy) ==
    /\ ClearBusy(busy)
    /\ btn_login' = IF busy THEN _user = "None" ELSE btn_login
    /\ btn_logout' = IF busy THEN _user # "None" ELSE btn_logout

\* (self._current_repo_id, self._current_repo_type)
Current == Repo(_current_repo_id, _current_repo_type)

\* cache_key in self._readme_cache, for the key of repository r
Cached(r) == r.id # "" /\ _readme_cache[r] # NoEntry

\* _load_readme: the workers it starts; none when it serves the view from the
\* cache
LoadReadmeRequests(r, force) ==
    IF r.id = "" \/ (~force /\ Cached(r)) THEN <<>>
    ELSE <<Request(_load_readme, RepoArg(r))>>

\* _load_readme: what it shows at once
LoadReadmeView(r, force) ==
    IF r.id = "" THEN ""
    ELSE IF ~force /\ Cached(r) THEN Shown(_readme_cache[r])
    ELSE readmeView

\* _load_readme: the repository whose README the view shows after it
LoadReadmeViewRepo(r, force) ==
    IF r.id = "" THEN NoRepo
    ELSE IF ~force /\ Cached(r) THEN r
    ELSE view_repo

\* _refresh_files: a worker for fetch, when a repository is selected
RefreshFilesRequests(r) ==
    IF r.id = "" THEN <<>> ELSE <<Request(_refresh_files, RepoArg(r))>>

\* _on_repo_selected: the user selects repository r in the list
OnRepoSelected(r) ==
    /\ mainpc = "idle"
    /\ _all_repos = "listed"
    /\ r # tree_item
    /\ tree_item' = r
    /\ IF _busy
       THEN /\ UNCHANGED <<_current_repo_id, _current_repo_type, readmeView, view_repo,
                           statusBar, nops>>
            /\ Dispatch({}, <<>>)
       ELSE /\ nops < MaxOps
            /\ nops' = nops + 1
            /\ _current_repo_id' = r.id
            /\ _current_repo_type' = r.type
            /\ Dispatch({}, RefreshFilesRequests(r) \o LoadReadmeRequests(r, FALSE))
            /\ readmeView' = LoadReadmeView(r, FALSE)
            /\ view_repo' = LoadReadmeViewRepo(r, FALSE)
            /\ statusBar' = "Loading..."
    /\ UNCHANGED <<_readme_cache, remote_readme, browser_repo, lastPush>>
    /\ UNCHANGED <<_busy, actions_enabled, btn_login, btn_logout, eventQueue, dialogs>>
    /\ UNCHANGED readmeFrame

\* the Load README button: _load_readme(force_refresh=True)
OnLoadReadme ==
    /\ mainpc = "idle"
    /\ actions_enabled
    /\ nops < MaxOps
    /\ nops' = nops + 1
    /\ Dispatch({}, LoadReadmeRequests(Current, TRUE))
    /\ readmeView' = LoadReadmeView(Current, TRUE)
    /\ view_repo' = LoadReadmeViewRepo(Current, TRUE)
    /\ statusBar' = "Loading README..."
    /\ lastPush' = [r \in Repos |-> IF r = Current THEN NoEntry ELSE lastPush[r]]
    /\ UNCHANGED <<_current_repo_id, _current_repo_type, tree_item, _readme_cache,
                   remote_readme, browser_repo>>
    /\ UNCHANGED <<_busy, actions_enabled, btn_login, btn_logout, eventQueue, dialogs>>
    /\ UNCHANGED readmeFrame

\* _on_edit_readme: the editor is accepted with content c
OnEditReadme(c) ==
    /\ mainpc = "idle"
    /\ actions_enabled
    /\ _current_repo_id # ""
    /\ nops < MaxOps
    /\ nops' = nops + 1
    /\ Dispatch({}, <<Request(_on_edit_readme, PushArg(Current, c))>>)
    /\ SetBusy
    /\ statusBar' = "Saving README..."
    /\ UNCHANGED <<_current_repo_id, _current_repo_type, tree_item, _readme_cache,
                   remote_readme, browser_repo, view_repo, lastPush>>
    /\ UNCHANGED <<readmeView, eventQueue, dialogs>>
    /\ UNCHANGED readmeFrame

readmeThreadFrame ==
    <<site, wargs, busyArg, tid, _workers, _busy, dialogs, statusBar, btn_login,
      btn_logout, actions_enabled, readmeView, _current_repo_id, _current_repo_type,
      tree_item, _readme_cache, browser_repo, view_repo, lastPush, nops, lpc, lapi>>

\* get_readme in a worker: the text of the remote README, or "" when
\* get_file_content fails
RunGetReadme(w) ==
    /\ wpc[w] = "running" /\ site[w].fn = "get_readme"
    /\ \E c \in {remote_readme[wargs[w].repo], ""} : EndRun(w, Returned(c))
    /\ UNCHANGED remote_readme
    /\ UNCHANGED <<readmeThreadFrame, readmeFrame>>

\* push_readme in a worker: the remote README is replaced, or the push fails
RunPushReadme(w) ==
    /\ wpc[w] = "running" /\ site[w].fn = "push_readme"
    /\ \/ /\ remote_readme' = [remote_readme EXCEPT ![wargs[w].repo] = wargs[w].content]
          /\ EndRun(w, Returned("url"))
       \/ /\ Len(dialogs) < MaxDialogs
          /\ UNCHANGED remote_readme
          /\ EndRun(w, Raised(Exc("HFModelCardError", NoResponse, "Failed to push README")))
    /\ UNCHANGED <<readmeThreadFrame, readmeFrame>>

\* fetch in a worker: the branches and the files of the repository
RunFetch(w) ==
    /\ wpc[w] = "running" /\ site[w].fn = "fetch"
    /\ \/ EndRun(w, Returned("files"))
       \/ /\ Len(dialogs) < MaxDialogs
          /\ EndRun(w, Raised(Exc("HFRepoError", NoResponse, "Failed to list files")))
    /\ UNCHANGED remote_readme
    /\ UNCHANGED <<readmeThreadFrame, readmeFrame>>

OnReadmeLoaded_KeepsPushed(w, content) ==
    /\ IF _current_repo_id # wargs[w].repo.id \/ lastPush[wargs[w].repo] # NoEntry
       THEN UNCHANGED <<_readme_cache, readmeView, view_repo, statusBar>>
       ELSE /\ _readme_cache' = [_readme_cache EXCEPT ![wargs[w].repo] = content]
            /\ readmeView' = Shown(content)
            /\ view_repo' = wargs[w].repo
            /\ statusBar' = ""
    /\ Dispatch({w}, <<>>)
    /\ UNCHANGED <<dialogs, browser_repo, lastPush>>

\* on_success of _load_readme
OnReadmeLoaded(w, content) ==
    /\ IF _current_repo_id # wargs[w].repo.id
       THEN UNCHANGED <<_readme_cache, readmeView, view_repo, statusBar>>
       ELSE /\ _readme_cache' = [_readme_cache EXCEPT ![wargs[w].repo] = content]
            /\ readmeView' = Shown(content)
            /\ view_repo' = wargs[w].repo
            /\ statusBar' = ""
    /\ Dispatch({w}, <<>>)
    /\ UNCHANGED <<dialogs, browser_repo, lastPush>>

\* on_success of _on_edit_readme
OnReadmePushed(w) ==
    /\ _readme_cache' = [_readme_cache EXCEPT ![wargs[w].repo] = wargs[w].content]
    /\ readmeView' = Shown(wargs[w].content)
    /\ view_repo' = wargs[w].repo
    /\ statusBar' = "Loading files..."
    /\ lastPush' = [lastPush EXCEPT ![wargs[w].repo] = wargs[w].content]
    /\ Dispatch({w}, RefreshFilesRequests(Current))
    /\ UNCHANGED <<dialogs, browser_repo>>

\* on_success of _refresh_files
OnFilesFetched(w) ==
    /\ IF _current_repo_id # wargs[w].repo.id
       THEN UNCHANGED <<browser_repo, statusBar>>
       ELSE /\ browser_repo' = wargs[w].repo
            /\ statusBar' = "Loaded files."
    /\ Dispatch({w}, <<>>)
    /\ UNCHANGED <<dialogs, _readme_cache, readmeView, view_repo, lastPush>>

\* _on_error of a README or file worker: its on_error, or the default dialog
OnReadmeError(w, msg) ==
    /\ IF site[w].on_error = "placeholder"
       THEN /\ readmeView' = "(No README.md found)"
            /\ view_repo' = wargs[w].repo
            /\ UNCHANGED dialogs
       ELSE /\ dialogs' = Append(dialogs, [title |-> site[w].title, text |-> msg])
            /\ UNCHANGED <<readmeView, view_repo>>
    /\ statusBar' = ""
    /\ Dispatch({w}, <<>>)
    /\ UNCHANGED <<_readme_cache, browser_repo, lastPush>>

\* the interactive thread runs the next queued call
ReadmeDeliver ==
    /\ mainpc = "idle"
    /\ eventQueue # <<>>
    /\ LET ev == Head(eventQueue) IN
        /\ ClearBusyAll(busyArg[ev.w])
        /\ IF ev.signal.sig = "error" THEN OnReadmeError(ev.w, ev.signal.arg)
           ELSE IF site[ev.w].fn = "get_readme" THEN OnReadmeLoaded(ev.w, ev.signal.arg)
           ELSE IF site[ev.w].fn = "push_readme" THEN OnReadmePushed(ev.w)
           ELSE OnFilesFetched(ev.w)
    /\ eventQueue' = Tail(eventQueue)
    /\ UNCHANGED <<_current_repo_id, _current_repo_type, tree_item, remote_readme, nops>>
    /\ UNCHANGED readmeFrame

(***************************************************************************)
(* Specifications                                                          *)
(***************************************************************************)
WorkerStep(w) == FnReturn(w) \/ FnRaise(w) \/ CheckCancelled(w) \/ Emit(w)

Init ==
    /\ retries = DefaultRetries
    /\ delay = DefaultDelay
    /\ InitRetryVars
    /\ InitWorkerVars
    /\ InitBackendVars
    /\ InitAuthVars
    /\ InitUiVars
    /\ InitThreadVars
    /\ InitSessionVars
    /\ calls = 0

Next ==
    \/ \E w \in Workers, busy \in BOOLEAN : RunApi(w, busy)
    \/ \E w \in Workers : FnReturn(w)
    \/ \E w \in Workers : FnRaise(w)
    \/ \E w \in Workers : CheckCancelled(w)
    \/ \E w \in Workers : Emit(w)
    \/ Deliver
    \/ CloseBegin
    \/ CloseBlock
    \/ CloseCancel
    \/ CloseEnd

Spec == Init /\ [][Next]_vars

NextWorker ==
    \/ \E w \in Workers : WorkerStart(w)
    \/ \E w \in Workers : FnReturn(w)
    \/ \E w \in Workers : FnRaise(w)
    \/ \E w \in Workers : CheckCancelled(w)
    \/ \E w \in Workers : Emit(w)
    \/ \E w \in Workers : Cancel(w)

SpecWorker == Init /\ [][NextWorker]_vars

\* the thread scheduler runs every started worker thread
SpecWorkerLive ==
    /\ SpecWorker
    /\ \A w \in Workers : WF_vars(WorkerStep(w))

InitRetry ==
    /\ retries \in -1..MaxRetries
    /\ delay \in 1..MaxDelay
    /\ InitRetryVars
    /\ InitWorkerVars
    /\ InitBackendVars
    /\ InitAuthVars
    /\ InitUiVars
    /\ InitThreadVars
    /\ InitSessionVars
    /\ calls = 1

NextRetry ==
    \/ ForIter
    \/ TryCall
    \/ Sleep
    \/ Exhausted

SpecRetry == InitRetry /\ [][NextRetry]_vars

\* calls of with_retry one after the other
NextRetryCalls ==
    \/ ForIter
    \/ TryCall
    \/ Sleep
    \/ Exhausted
    \/ WithRetryCall

SpecRetryCalls == InitRetry /\ [][NextRetryCalls]_vars

\* one call of a backend function, or of an operation of the main window
NextBackend ==
    \/ \E f \in BackendFunctions \cup UiOperations, t \in Tokens \cup {"None"} :
            t \in ArgTokens(f) /\ BackendCall(f, t)
    \/ StepRequireToken
    \/ StepGetApi
    \/ StepDirect
    \/ StepWithRetry
    \/ WithRetryStep
    \/ WithRetryEnd
    \/ StepCall
    \/ FunctionReturn
    \/ Except

SpecBackend == Init /\ [][NextBackend]_vars

\* a worker whose operation (self._fn) is a backend function: one that goes
\* through with_retry and one that calls the api directly
OpWorker == 1
WorkerOperations == {"list_my_repos", "list_my_collections"}

\* run(): self._fn(*args, **kwargs) is entered
OpBegin(f, t) ==
    /\ wpc[OpWorker] = "running"
    /\ BackendCall(f, t)

\* a step of the operation inside the worker thread
OpStep ==
    /\ wpc[OpWorker] = "running"
    /\ \/ StepRequireToken
       \/ StepGetApi
       \/ StepDirect
       \/ StepWithRetry
       \/ WithRetryStep
       \/ WithRetryEnd
       \/ StepCall
       \/ FunctionReturn
       \/ Except

\* run(): self._fn has returned (result = ...) or raised (except Exception as e)
OpEnd ==
    /\ wpc[OpWorker] = "running"
    /\ bpc = "done"
    /\ outcome' = [outcome EXCEPT ![OpWorker] = bresult]
    /\ wpc' = [wpc EXCEPT ![OpWorker] =
                IF bresult.kind = "return" THEN "returned"
                ELSE IF CatchesException(bresult.err) THEN "except" ELSE "escaped"]
    /\ UNCHANGED <<_cancelled, signalsBlocked, busyArg, emitted, eventQueue,
                   delivered, _workers, _busy, mainpc, closeList, closeCur, closed>>
    /\ UNCHANGED nonWorkerVars

NextWorkerOp ==
    \/ WorkerStart(OpWorker)
    \/ \E f \in WorkerOperations : OpBegin(f, "None")
    \/ OpStep
    \/ OpEnd
    \/ CheckCancelled(OpWorker)
    \/ Emit(OpWorker)
    \/ Cancel(OpWorker)

SpecWorkerOp == Init /\ [][NextWorkerOp]_vars

\* a handler of the main window starts the worker of its call site
RunApiAt(w, s) ==
    /\ _run_api(w, s.busy)
    /\ site' = [site EXCEPT ![w] = s]
    /\ UNCHANGED <<dialogs, statusBar, readmeView>>
    /\ UNCHANGED nonControllerVars

\* run(): self._fn(*args, **kwargs) is entered, with the arguments of the site
OpBeginAt ==
    /\ wpc[OpWorker] = "running"
    /\ \E t \in SiteTokens(site[OpWorker]) : BackendCall(site[OpWorker].fn, t)

OnError_NoDefault(s, msg) ==
    CASE s.on_error = "default" ->
            /\ statusBar' = ""
            /\ UNCHANGED <<dialogs, readmeView>>
      [] s.on_error = "dialog" ->
            /\ dialogs' = Append(dialogs, [title |-> s.title, text |-> msg])
            /\ statusBar' = ""
            /\ UNCHANGED readmeView
      [] s.on_error = "status" ->
            /\ statusBar' = "Saved token is no longer valid - please log in again."
            /\ UNCHANGED <<dialogs, readmeView>>
      [] s.on_error = "placeholder" ->
            /\ readmeView' = "(No README.md found)"
            /\ statusBar' = ""
            /\ UNCHANGED dialogs

\* on_error(msg), or the default of _on_error
OnError(s, msg) ==
    CASE s.on_error = "default" ->
            /\ dialogs' = Append(dialogs, [title |-> "Error", text |-> msg])
            /\ statusBar' = ""
            /\ UNCHANGED readmeView
      [] s.on_error = "dialog" ->
            /\ dialogs' = Append(dialogs, [title |-> s.title, text |-> msg])
            /\ statusBar' = ""
            /\ UNCHANGED readmeView
      [] s.on_error = "status" ->
            /\ statusBar' = "Saved token is no longer valid - please log in again."
            /\ UNCHANGED <<dialogs, readmeView>>
      [] s.on_error = "placeholder" ->
            /\ readmeView' = "(No README.md found)"
            /\ statusBar' = ""
            /\ UNCHANGED dialogs

\* the interactive thread runs the next queued call: _on_finished, or
\* _on_error with the on_error of the call site
DeliverAt ==
    /\ QueuedCall
    /\ LET ev == Head(eventQueue) IN
        IF ev.signal.sig = "error"
        THEN OnError(site[ev.w], ev.signal.arg)
        ELSE UNCHANGED <<dialogs, statusBar, readmeView>>
    /\ UNCHANGED site
    /\ UNCHANGED nonControllerVars

\* the main window starts one operation from any of its call sites and the
\* outcome comes back to it
NextNotify ==
    \/ \E s \in CallSites : RunApiAt(OpWorker, s)
    \/ OpBeginAt
    \/ OpStep
    \/ OpEnd
    \/ CheckCancelled(OpWorker)
    \/ Emit(OpWorker)
    \/ DeliverAt

SpecNotify == Init /\ [][NextNotify]_vars

\* login, called when earlier operations may have installed a handle
NextLogin ==
    \/ \E t \in Tokens \cup {"None"} : bpc = "idle" /\ GetApi(OpWorker, t)
    \/ \E t \in Tokens : BackendCall("login", t)
    \/ StepRequireToken
    \/ StepGetApi
    \/ StepDirect
    \/ FunctionReturn
    \/ Except

SpecLogin == Init /\ [][NextLogin]_vars

\* two logins at a time: the automatic one and one from the login dialog
NextLogins ==
    \/ \E t \in Tokens : OnLogin(t)
    \/ \E w \in Slots : LoginStrip(w)
    \/ \E w \in Slots : LoginGetApiStore(w)
    \/ \E w \in Slots : LoginGetApiReturn(w)
    \/ \E w \in Slots : LoginWhoami(w)
    \/ \E w \in Slots : LoginExcept(w)
    \/ \E w \in Slots : RunListing(w)
    \/ SessionDeliver

SpecLogins == InitSession /\ [][NextLogins]_vars

\* the user logs in and out while workers are in flight
NextSession ==
    \/ \E t \in Tokens : OnLogin(t)
    \/ OnLogout
    \/ \E w \in Slots : RunLogin(w)
    \/ \E w \in Slots : RunListing(w)
    \/ SessionDeliver

SpecSession == InitSession /\ [][NextSession]_vars

\* a logged-in user selects repositories, loads and edits READMEs
NextReadme ==
    \/ \E r \in Repos : OnRepoSelected(r)
    \/ OnLoadReadme
    \/ \E c \in PushedContents : OnEditReadme(c)
    \/ \E w \in Slots : RunGetReadme(w)
    \/ \E w \in Slots : RunPushReadme(w)
    \/ \E w \in Slots : RunFetch(w)
    \/ ReadmeDeliver

SpecReadme == InitReadme /\ [][NextReadme]_vars

\* backend operations that make their remote call through with_retry
SharedOperations == {"list_my_repos", "upload_file"}

\* the worker beside the one that runs the operation, and the token
\* arguments of its get_api calls: a login's token, or none
OtherWorker == OpWorker + 1
OtherTokens == {"t1", "None"}

\* a backend operation in one worker while another worker replaces the shared
\* handle (get_api(token), as login does) or resets it (_reset_api)
NextShared ==
    \/ \E f \in SharedOperations : BackendCall(f, "None")
    \/ StepGetApi
    \/ StepWithRetry
    \/ WithRetryStep
    \/ WithRetryEnd
    \/ FunctionReturn
    \/ Except
    \/ \E t \in OtherTokens : GetApi(OtherWorker, t)
    \/ _reset_api

SpecShared == Init /\ [][NextShared]_vars

\* the module hf_auth under callers that take and reset the handle
NextAuth ==
    \/ \E w \in Workers, t \in Tokens \cup {"None"} : GetApi(w, t)
    \/ _reset_api

SpecAuth == Init /\ [][NextAuth]_vars

(***************************************************************************)
(* Properties of the worker and its controller                             *)
(***************************************************************************)

\* C1: for any interleaving of run, cancel and the queued callbacks, a worker
\* delivers at most one outcome, and once cancel() has been requested for a
\* worker no outcome of it is delivered afterwards: none is emitted by the
\* worker thread and none is run as a controller callback.
C1_NoOutcomeAfterCancel ==
    [][\A w \in Workers :
        /\ Len(emitted'[w]) <= 1
        /\ Len(delivered'[w]) <= 1
        /\ _cancelled[w] => (emitted'[w] = emitted[w] /\ delivered'[w] = delivered[w])]_vars

\* C2: a worker cancelled while its operation has not yet returned or raised
\* never emits a signal, whatever the operation does afterwards; a worker that
\* is not cancelled (nor silenced by closeEvent) and whose operation returned
\* has emitted finished with the returned value when run ends.
C2_CancelSuppressesDelivery ==
    /\ \A w \in Workers :
        [](( _cancelled[w] /\ wpc[w] = "running") => [](emitted[w] = <<>>))
    /\ [](\A w \in Workers :
            (/\ wpc[w] = "done"
             /\ outcome[w].kind = "return"
             /\ ~_cancelled[w]
             /\ ~signalsBlocked[w])
            => emitted[w] = <<[sig |-> "finished", arg |-> outcome[w].val]>>)

\* two workers ran the same successful operation; the one cancelled before the
\* operation returned emitted nothing, the other emitted finished
C2_Witness ==
    \E w, u \in Workers :
        /\ wpc[w] = "done" /\ wpc[u] = "done"
        /\ outcome[w] = outcome[u] /\ outcome[w].kind = "return"
        /\ _cancelled[w] /\ emitted[w] = <<>>
        /\ ~_cancelled[u] /\ emitted[u] = <<[sig |-> "finished", arg |-> outcome[u].val]>>

\* C3: one invocation of run never emits both finished and error, and never
\* emits more than one signal in total.
C3_SingleOutcome ==
    \A w \in Workers :
        /\ Len(emitted[w]) <= 1
        /\ ~(\E i, j \in 1..Len(emitted[w]) :
                emitted[w][i].sig = "finished" /\ emitted[w][j].sig = "error")

\* run has ended in one worker after a finished signal and in another after
\* an error signal
C3_Witness ==
    \E w, u \in Workers :
        /\ wpc[w] = "done" /\ wpc[u] = "done"
        /\ Len(emitted[w]) = 1 /\ emitted[w][1].sig = "finished"
        /\ Len(emitted[u]) = 1 /\ emitted[u][1].sig = "error"

\* C4: a started worker that is never cancelled, and whose operation
\* terminates, eventually has emitted exactly one signal: finished carrying
\* the returned value, or error carrying str(exception).
C4_EventuallyOneOutcome ==
    \A w \in Workers :
        [](wpc[w] = "running" =>
            <>(\/ _cancelled[w]
               \/ /\ wpc[w] = "done"
                  /\ outcome[w].kind = "return"
                  /\ emitted[w] = <<[sig |-> "finished", arg |-> outcome[w].val]>>
               \/ /\ wpc[w] = "done"
                  /\ outcome[w].kind = "raise"
                  /\ emitted[w] = <<[sig |-> "error", arg |-> outcome[w].err.msg]>>))

\* an uncancelled worker whose operation raised has emitted error(str(e))
C4_Witness ==
    \E w \in Workers :
        /\ wpc[w] = "done"
        /\ ~_cancelled[w]
        /\ outcome[w].kind = "raise"
        /\ emitted[w] = <<[sig |-> "error", arg |-> outcome[w].err.msg]>>

\* C5: whatever failure the operation raises, it never leaves run: run ends
\* normally and, unless the worker was cancelled (or silenced by closeEvent),
\* a string message has been emitted on the error channel.
C5_ErrorBoundary ==
    \A w \in Workers :
        outcome[w].kind = "raise" =>
            /\ wpc[w] # "escaped"
            /\ (wpc[w] = "done" /\ ~_cancelled[w] /\ ~signalsBlocked[w]) =>
                /\ Len(emitted[w]) = 1
                /\ emitted[w][1].sig = "error"
                /\ emitted[w][1].arg \in {e.msg : e \in WorkerErrors}

\* an operation raised a failure that is not one of the backend's own error
\* types, and run ended with its message on the error channel
C5_Witness ==
    \E w \in Workers :
        /\ wpc[w] = "done"
        /\ outcome[w].kind = "raise"
        /\ outcome[w].err.cls = "ValueError"
        /\ emitted[w] = <<[sig |-> "error", arg |-> "bad value"]>>

(***************************************************************************)
(* Properties of with_retry                                                *)
(***************************************************************************)
Terminal == rpc \in {"returned", "raised"}

AllTransient(log) ==
    \A i \in 1..Len(log) : log[i].kind = "raise" /\ TransientFailure(log[i].err)

HttpFailure(o, code) ==
    /\ o.kind = "raise"
    /\ o.err.cls = "HfHubHTTPError"
    /\ o.err.response = [present |-> TRUE, status_code |-> code]

\* C6: when every call of the operation raises a retryable failure,
\* with_retry(fn, retries=n), n >= 1, has invoked fn exactly n times when it
\* ends, and it ends by raising the failure of the last call.
C6_ExhaustionRaisesAfterNCalls ==
    (Terminal /\ retries >= 1 /\ AllTransient(callLog)) =>
        /\ Len(callLog) = retries
        /\ rpc = "raised"
        /\ result = [kind |-> "raise", val |-> "None", err |-> callLog[Len(callLog)].err]
        /\ (\A i \in 1..Len(callLog) : callLog[i] = callLog[1]) => result = callLog[1]

\* an operation that raised ConnectError on every call, with retries = 2
C6_Witness ==
    /\ rpc = "raised"
    /\ retries = 2
    /\ Len(callLog) = 2
    /\ \A i \in 1..2 : callLog[i].kind = "raise" /\ callLog[i].err.cls = "ConnectError"
    /\ result = callLog[2]

\* C7: a call that succeeds is the last one: it came after retryable failures
\* only, with_retry has returned its value, and no call follows it; and
\* with_retry does not give up after a retryable failure while attempts remain.
\* So k retryable failures (k < retries) and a success make exactly k+1 calls.
C7_SuccessAfterKFailures ==
    /\ \A j \in 1..Len(callLog) :
        callLog[j].kind = "return" =>
            /\ j = Len(callLog)
            /\ j <= retries
            /\ \A i \in 1..(j - 1) :
                callLog[i].kind = "raise" /\ TransientFailure(callLog[i].err)
            /\ rpc = "returned"
            /\ result = [kind |-> "return", val |-> callLog[j].val, err |-> NoErr]
    /\ (Terminal /\ retries >= 1 /\ Len(callLog) < retries) =>
            /\ callLog # <<>>
            /\ ~(/\ callLog[Len(callLog)].kind = "raise"
                 /\ TransientFailure(callLog[Len(callLog)].err))

\* fail, fail, succeed with retries = 3
C7_Witness ==
    /\ retries = 3
    /\ Len(callLog) = 3
    /\ callLog[1].kind = "raise"
    /\ callLog[2].kind = "raise"
    /\ callLog[3] = [kind |-> "return", val |-> "v1", err |-> NoErr]
    /\ rpc = "returned"
    /\ result.val = "v1"

\* C8: when the first call raises a non-retryable failure, with_retry has
\* invoked the operation exactly once, has not slept, and has raised that
\* failure unchanged.
C8_NonRetryableShortCircuit ==
    (/\ callLog # <<>>
     /\ callLog[1].kind = "raise"
     /\ ~TransientFailure(callLog[1].err))
    => /\ Len(callLog) = 1
       /\ sleeps = <<>>
       /\ rpc = "raised"
       /\ result = callLog[1]

\* the first call raised ValueError with retries = 3: one call, no sleep
C8_Witness ==
    /\ retries = 3
    /\ callLog = <<[kind |-> "raise", val |-> "None",
                    err |-> [cls |-> "ValueError", response |-> NoResponse,
                             msg |-> "ValueError"]]>>
    /\ rpc = "raised"
    /\ sleeps = <<>>

\* C9: _is_retryable holds of a failure exactly when it is a transport-level
\* error (connect, timeout, network, protocol) or an HTTP error whose response
\* has status >= 500; and only such a failure is ever followed by another
\* attempt.
C9_Classification ==
    /\ \A e \in FnErrors : _is_retryable(e) <=> TransientFailure(e)
    /\ \A e \in FnErrors : (Caught(e) /\ _is_retryable(e)) <=> TransientFailure(e)
    /\ \A i \in 1..(Len(callLog) - 1) :
        callLog[i].kind = "raise" /\ TransientFailure(callLog[i].err)
    /\ \A i \in 1..Len(callLog) :
        (callLog[i].kind = "raise" /\ ~TransientFailure(callLog[i].err)) =>
            (i = Len(callLog) /\ rpc = "raised")

\* a status 500 was followed by another attempt, and a status 499 ended the call
C9_Witness ==
    /\ Len(callLog) = 2
    /\ HttpFailure(callLog[1], 500)
    /\ HttpFailure(callLog[2], 499)
    /\ rpc = "raised"

\* C10: with the default retries = 3, an operation that always fails with HTTP
\* status 503 has been invoked exactly 3 times when with_retry ends, and one
\* that always fails with status 404 exactly once.
C10_StatusCodeAttempts ==
    (Terminal /\ retries = DefaultRetries /\ callLog # <<>>) =>
        /\ (\A i \in 1..Len(callLog) : HttpFailure(callLog[i], 503)) => Len(callLog) = 3
        /\ (\A i \in 1..Len(callLog) : HttpFailure(callLog[i], 404)) => Len(callLog) = 1

\* the default configuration, three calls that each failed with status 503
C10_Witness ==
    /\ rpc = "raised"
    /\ retries = DefaultRetries
    /\ delay = DefaultDelay
    /\ Len(callLog) = 3
    /\ \A i \in 1..3 : HttpFailure(callLog[i], 503)

\* C11: the wait after the k-th failed attempt (k from 1) and before attempt
\* k+1 is delay * k, so the waits of one call never decrease; there is no
\* wait after the final attempt nor after a non-retryable failure, and a
\* finished call has waited once between every two consecutive attempts.
C11_LinearBackoff ==
    /\ \A k \in 1..Len(sleeps) :
        /\ sleeps[k] = delay * k
        /\ k <= Len(callLog)
        /\ callLog[k].kind = "raise" /\ TransientFailure(callLog[k].err)
        /\ k + 1 <= retries
    /\ \A i, j \in 1..Len(sleeps) : i <= j => sleeps[i] <= sleeps[j]
    /\ \A k \in 1..Len(callLog) :
        (callLog[k].kind = "raise" /\ ~TransientFailure(callLog[k].err)) =>
            Len(sleeps) < k
    /\ (Terminal /\ callLog # <<>>) => Len(sleeps) = Len(callLog) - 1

\* three failed attempts with delay = 2: waits of 2 and 4, none after the third
C11_Witness ==
    /\ rpc = "raised"
    /\ retries = 3
    /\ delay = 2
    /\ Len(callLog) = 3
    /\ sleeps = <<2, 4>>

\* C12: when the attempts are exhausted by retryable failures that are not all
\* the same, with_retry raises the failure of the last attempt, its class,
\* response and message unchanged: not the failure of an earlier attempt and
\* not a replacement.
C12_LastFailureRaised ==
    (/\ rpc = "raised"
     /\ retries >= 2
     /\ Len(callLog) = retries
     /\ AllTransient(callLog)
     /\ \E i \in 1..Len(callLog) : callLog[i] # callLog[Len(callLog)])
    => LET last == callLog[Len(callLog)].err IN
        /\ result.kind = "raise"
        /\ result.err.cls = last.cls
        /\ Str(result.err) = Str(last)
        /\ result.err.response = last.response
        /\ \A i \in 1..Len(callLog) : callLog[i].err # last => result.err # callLog[i].err

\* ConnectError, then status 503, then ReadTimeout: ReadTimeout is raised
C12_Witness ==
    /\ rpc = "raised"
    /\ retries = 3
    /\ Len(callLog) = 3
    /\ callLog[1].err.cls = "ConnectError"
    /\ HttpFailure(callLog[2], 503)
    /\ callLog[3].err.cls = "ReadTimeout"
    /\ result.err.cls = "ReadTimeout"
    /\ Str(result.err) = "ReadTimeout"

(***************************************************************************)
(* Properties of the backend functions                                     *)
(***************************************************************************)
\* the operations that go out to the network: authentication, repository
\* listing / creation / deletion / visibility, file upload / download /
\* delete, the collection functions, README read and write
NetworkOperations ==
    {"login", "list_my_repos", "create_repo", "delete_repo", "update_repo_visibility",
     "upload_file", "upload_folder", "download_file", "delete_file", "delete_files",
     "list_my_collections", "get_collection", "create_collection", "delete_collection",
     "add_collection_item", "remove_collection_item", "update_collection_metadata",
     "get_readme", "push_readme"}

\* the remote side failed transiently on the first invocation and succeeded
\* on every later one
SingleTransientThenSuccess ==
    /\ remoteKinds # <<>>
    /\ remoteKinds[1] = "transient"
    /\ \A i \in 2..Len(remoteKinds) : remoteKinds[i] = "ok"

\* C13: every outbound network operation of the backend goes through
\* with_retry: for each of them, when the remote side fails transiently once
\* and succeeds afterwards, the operation returns successfully to its caller.
C13_EveryOperationRetried ==
    (bpc = "done" /\ called \in NetworkOperations /\ SingleTransientThenSuccess)
        => bresult.kind = "return"

\* C14: no failure of a backend operation is swallowed: when a remote call
\* made for an operation of the main window fails (with_retry gave up, or the
\* direct call raised), the operation ends by raising, so that the worker
\* reports it on its error channel; it does not end with a normal return value.
C14_NoFailureSwallowed ==
    (bpc = "done" /\ called \in UiOperations /\ cause # NoErr)
        => bresult.kind = "raise"

BoundaryModules == {"hf_repos", "hf_files", "hf_collections", "hf_model_card"}

\* the error type of each boundary module
ModuleError(mod) ==
    CASE mod = "hf_repos" -> "HFRepoError"
      [] mod = "hf_files" -> "HFFileError"
      [] mod = "hf_collections" -> "HFCollectionError"
      [] mod = "hf_model_card" -> "HFModelCardError"

\* the prefix a function puts in front of the message of what it caught
PrefixOf(f) ==
    LET h == Function(f).handlers
    IN h[CHOOSE i \in 1..Len(h) : h[i].do = "wrap"].text

NoDuplicates(s) == \A i, j \in 1..Len(s) : i # j => s[i] # s[j]

\* C18: a failure of a remote call leaves a function of hf_repos, hf_files,
\* hf_collections or hf_model_card wrapped once per boundary module it passed
\* through: the function raises its own module's error type, the message is
\* the function's prefix followed directly by the message of the failure it
\* caught, and no module has wrapped the failure twice.
C18_OneLayerPerModule ==
    (/\ bpc = "done"
     /\ Function(called).module \in BoundaryModules
     /\ bresult.kind = "raise"
     /\ cause # NoErr)
    => /\ bresult.err.cls = ModuleError(Function(called).module)
       /\ layers # <<>>
       /\ NoDuplicates(layers)
       /\ Str(bresult.err) = PrefixOf(called) \o Str(inner)

(***************************************************************************)
(* Properties of the shared client handle                                  *)
(***************************************************************************)
\* C17: get_api() without a token makes a handle only when there is none, and
\* otherwise returns the existing handle and leaves it as it is; get_api(token)
\* with a token always installs, and returns, a new handle made from that token.
C17_LazyHandleReplacedOnToken ==
    [][apiArg'.op = "get_api" =>
        LET w == apiArg'.caller
            t == apiArg'.token
        IN /\ apiRet'[w] = _api_instance'
           /\ _api_instance' # NoHandle
           /\ (t = "None" /\ _api_instance # NoHandle) => _api_instance' = _api_instance
           /\ (t = "None" /\ _api_instance = NoHandle) =>
                    _api_instance' = [id |-> nextHandle, token |-> "None"]
           /\ (t \notin {"None", ""}) =>
                    /\ _api_instance' = [id |-> nextHandle, token |-> t]
                    /\ _api_instance' # _api_instance
                    /\ \A u \in Workers : apiRet[u] # _api_instance']_vars

\* a caller took the handle lazily, a token then replaced it, and a call
\* without a token returned the replacement as it was
C17_Witness ==
    \E w, u \in Workers :
        /\ apiArg = [op |-> "get_api", caller |-> w, token |-> "None"]
        /\ _api_instance = [id |-> 2, token |-> "t1"]
        /\ apiRet[w] = _api_instance
        /\ apiRet[u] = [id |-> 1, token |-> "None"]

(***************************************************************************)
(* Properties of the controller                                            *)
(***************************************************************************)
\* a worker the controller has started and whose callback has not run
Outstanding(w) == wpc[w] # "unborn" /\ delivered[w] = <<>>

\* C15: when closeEvent finishes, every worker that is outstanding (started,
\* outcome not yet delivered) has its cancellation flag set.
C15_CloseCancelsOutstanding ==
    [][(~closed /\ closed') =>
        \A w \in Workers : Outstanding(w) => _cancelled'[w]]_vars

\* the window has closed while a worker was still inside its operation and
\* another had already emitted; both are cancelled
C15_Witness ==
    /\ closed
    /\ \E w, u \in Workers :
        /\ wpc[w] = "running" /\ _cancelled[w]
        /\ wpc[u] = "done" /\ Outstanding(u) /\ _cancelled[u]

\* C16: the in-flight set holds a worker from its start until its outcome is
\* delivered or it is cancelled, and no longer: _workers is always the set of
\* started workers that have neither delivered an outcome nor been cancelled.
C16_InFlightSetExact ==
    _workers = {w \in Workers : Outstanding(w) /\ ~_cancelled[w]}

\* C16 (amended): the in-flight set holds a worker from its start until its
\* callback has run, cancelled or not: _workers is always the set of started
\* workers whose outcome has not been delivered, and cancel() removes nothing.
C16_InFlightUntilDelivered ==
    _workers = {w \in Workers : Outstanding(w)}

\* after closeEvent one worker is cancelled and still in the set, another has
\* delivered its outcome and is out of it
C16_Witness ==
    /\ closed
    /\ \E w, u \in Workers :
        /\ _cancelled[w] /\ Outstanding(w) /\ w \in _workers
        /\ delivered[u] # <<>> /\ u \notin _workers

(***************************************************************************)
(* Properties of a worker running a backend operation                      *)
(***************************************************************************)
\* the operation of the worker is under way
InFlight == wpc[OpWorker] = "running" /\ bpc \notin {"idle", "done"}

\* the operation makes its remote call through with_retry
ThroughRetry(f) ==
    \E i \in 1..Len(Function(f).body) :
        Function(f).body[i].kind = "remote" /\ Function(f).body[i].retry

\* C19: cancel() does not interrupt or alter the operation in flight: the
\* step that sets the flag changes nothing else, a cancelled worker's
\* operation can always take its next step, and when run has passed the
\* operation, the operation had come to its own end (with_retry made every
\* remaining attempt and sleep); only the emission is left out.
C19_CancelDoesNotInterrupt ==
    /\ [][(~_cancelled[OpWorker] /\ _cancelled'[OpWorker]) =>
            UNCHANGED <<retryVars, backendVars, authVars, wpc, outcome>>]_vars
    /\ []((InFlight /\ _cancelled[OpWorker]) => ENABLED OpStep)
    /\ [](wpc[OpWorker] \in {"returned", "except", "emit", "done"} =>
            /\ bpc = "done"
            /\ outcome[OpWorker] = bresult
            /\ (ThroughRetry(called) /\ AllTransient(callLog)) =>
                    (Len(callLog) = retries /\ Len(sleeps) = retries - 1))
    /\ []((wpc[OpWorker] = "done" /\ emitted[OpWorker] = <<>>) => _cancelled[OpWorker])

\* the worker was cancelled and its operation is still inside with_retry,
\* about to sleep before its third attempt
C19_Witness ==
    /\ _cancelled[OpWorker]
    /\ InFlight
    /\ called = "list_my_repos"
    /\ rpc = "sleep"
    /\ Len(callLog) = 2
    /\ sleeps = <<1>>

(***************************************************************************)
(* Properties of the notification of failures                              *)
(***************************************************************************)
\* C20: every error outcome delivered to the controller leads to a blocking
\* notification: for every operation started through _run_api, when its error
\* is delivered a modal error dialog showing the failure message is shown.
C20_ErrorShownInDialog ==
    \A w \in Workers :
        \A i \in 1..Len(delivered[w]) :
            delivered[w][i].sig = "error" =>
                \E k \in 1..Len(dialogs) : dialogs[k].text = delivered[w][i].arg

\* C20 (amended): for every operation started through _run_api other than the
\* automatic login, the delivery of an error shows a modal error dialog with
\* the failure message (titled by the call site, "Error" by default); a failed
\* automatic login shows no dialog, only a message in the status bar.
C20_ErrorShownExceptAutoLogin ==
    \A w \in Workers :
        \A i \in 1..Len(delivered[w]) :
            delivered[w][i].sig = "error" =>
                IF site[w].name = "_try_auto_login"
                THEN /\ dialogs = <<>>
                     /\ statusBar = "Saved token is no longer valid - please log in again."
                ELSE \E k \in 1..Len(dialogs) :
                        /\ dialogs[k].text = delivered[w][i].arg
                        /\ dialogs[k].title =
                                IF site[w].on_error = "default" THEN "Error" ELSE site[w].title

\* the collections could not be listed: the default dialog shows the message
C20_Witness ==
    /\ site[OpWorker].name = "_refresh_collections"
    /\ delivered[OpWorker] =
            <<[sig |-> "error", arg |-> "Failed to list collections: ConnectError"]>>
    /\ dialogs = <<[title |-> "Error", text |-> "Failed to list collections: ConnectError"]>>

(***************************************************************************)
(* Threads                                                                 *)
(***************************************************************************)
\* a step in which a remote method is invoked (directly or as an attempt of
\* with_retry) or with_retry sleeps
NetworkOrSleepStep ==
    \/ bpc = "run" /\ Len(remoteKinds') > Len(remoteKinds)
    \/ Len(callLog') > Len(callLog)
    \/ Len(sleeps') > Len(sleeps)

\* a step in which the controller runs the callback of a worker's outcome
CallbackStep(w) == delivered'[w] # delivered[w]

\* C21: every remote call of an operation started from the main window and
\* every sleep of with_retry is a step of run() in a started worker's own
\* thread, which is not the interactive thread, and it changes nothing of the
\* controller; every success / error callback runs on the interactive thread,
\* from its event loop.
C21_NetworkOffInteractiveThread ==
    [][/\ NetworkOrSleepStep =>
            /\ wpc[OpWorker] = "running"
            /\ tid[OpWorker] = WorkerThread(OpWorker)
            /\ tid[OpWorker] # MainThread
            /\ UNCHANGED <<_workers, _busy, mainpc, delivered, dialogs, statusBar,
                           readmeView, site>>
       /\ \A w \in Workers :
            CallbackStep(w) =>
                /\ cbThread'[w] = MainThread
                /\ mainpc = "idle"
                /\ UNCHANGED <<backendVars, retryVars>>]_vars

\* list_my_repos failed twice with a retryable failure and then for good: there
\* were remote calls and sleeps in the worker's thread, and the error callback
\* ran on the interactive thread
C21_Witness ==
    /\ site[OpWorker].name = "_refresh_repos"
    /\ Len(remoteKinds) = 3
    /\ Len(sleeps) = 2
    /\ tid[OpWorker] = WorkerThread(OpWorker)
    /\ Len(delivered[OpWorker]) = 1
    /\ delivered[OpWorker][1].sig = "error"
    /\ cbThread[OpWorker] = MainThread

(***************************************************************************)
(* More properties of with_retry                                           *)
(***************************************************************************)
\* C22: when attempts 1..k-1 raised retryable failures and attempt k
\* (k <= retries) raised a non-retryable one, with_retry has invoked the
\* operation exactly k times, has waited exactly k-1 times, and has raised the
\* failure of attempt k, not one of the earlier ones.
C22_NonRetryableAfterRetryable ==
    \A k \in 1..Len(callLog) :
        (/\ AllTransient(SubSeq(callLog, 1, k - 1))
         /\ callLog[k].kind = "raise"
         /\ ~TransientFailure(callLog[k].err))
        => /\ k <= retries
           /\ Len(callLog) = k
           /\ Len(sleeps) = k - 1
           /\ rpc = "raised"
           /\ result = Raised(callLog[k].err)
           /\ \A i \in 1..(k - 1) : result.err # callLog[i].err

\* ConnectError, status 503, then status 404 with retries = 3: three calls, two
\* waits, and the 404 is what is raised
C22_Witness ==
    /\ retries = 3
    /\ Len(callLog) = 3
    /\ callLog[1].kind = "raise" /\ callLog[1].err.cls = "ConnectError"
    /\ HttpFailure(callLog[2], 503)
    /\ HttpFailure(callLog[3], 404)
    /\ Len(sleeps) = 2
    /\ rpc = "raised"
    /\ result = callLog[3]

\* a bound on the steps an unfinished call of with_retry can still take
StepsLeft ==
    LET left == IF retries > idx THEN retries - idx ELSE 0
        here == CASE rpc = "try" -> 6
                  [] rpc = "sleep" -> 5
                  [] rpc = "for" -> 3
                  [] rpc = "exhausted" -> 1
                  [] OTHER -> 0
    IN  4 * left + here

\* C23: for every retries >= 1 and whatever the operation does, a call of
\* with_retry never makes more than retries invocations nor more than
\* retries - 1 waits, and it terminates: while it has not ended it can take a
\* step, and every step brings it closer to its end.  The attempt counter is
\* that of the call: whatever calls came before, a call with retries >= 1
\* invokes the operation, it invokes it retries times before it gives up, and
\* what it raises is a failure of one of its own invocations.
C23_BoundedAndFresh ==
    /\ [](retries >= 1 =>
            /\ Len(callLog) <= retries
            /\ Len(sleeps) <= retries - 1
            /\ idx <= retries)
    /\ [](~Terminal => ENABLED (ForIter \/ TryCall \/ Sleep \/ Exhausted))
    /\ [][~Terminal => StepsLeft' < StepsLeft]_vars
    /\ []((Terminal /\ retries >= 1) =>
            /\ callLog # <<>>
            /\ result = callLog[Len(callLog)]
            /\ AllTransient(callLog) => Len(callLog) = retries)
    /\ [][rpc' = "for" /\ rpc # "for" /\ Terminal =>
            idx' = 0 /\ last_err' = NoErr]_vars

\* the second call, with retries = 3, has been given up after three
\* invocations and two waits; the call before it had been given up too
C23_Witness ==
    /\ calls = 2
    /\ retries = 3
    /\ rpc = "raised"
    /\ Len(callLog) = 3
    /\ Len(sleeps) = 2
    /\ AllTransient(callLog)
    /\ idx = 3

(***************************************************************************)
(* Properties of login                                                     *)
(***************************************************************************)
\* C24: a login whose token is empty or all whitespace makes no remote call
\* and never changes the shared handle, and it ends by raising HFAuthError; a
\* login with another token whose whoami call fails ends by raising
\* HFAuthError with the shared handle None.
C24_LoginFailureAndHandle ==
    /\ [][(called' = "login" /\ Strip(argToken') = "") =>
            /\ _api_instance' = _api_instance
            /\ remoteKinds' = <<>>]_vars
    /\ []((bpc = "done" /\ called = "login" /\ Strip(argToken) = "") =>
            /\ bresult = Raised(Exc("HFAuthError", NoResponse, "Token cannot be empty.")))
    /\ []((/\ bpc = "done" /\ called = "login" /\ Strip(argToken) # ""
           /\ remoteKinds # <<>>
           /\ remoteKinds[Len(remoteKinds)] # "ok") =>
            /\ bresult.kind = "raise"
            /\ bresult.err.cls = "HFAuthError"
            /\ _api_instance = NoHandle)

\* a handle had been installed before; login("t2") installed the second one,
\* its whoami failed, and the shared handle is None
C24_Witness ==
    /\ bpc = "done"
    /\ called = "login"
    /\ argToken = "t2"
    /\ nextHandle = 3
    /\ remoteKinds = <<"permanent">>
    /\ bresult.kind = "raise"
    /\ bresult.err.cls = "HFAuthError"
    /\ _api_instance = NoHandle

(***************************************************************************)
(* Properties of the session                                               *)
(***************************************************************************)
\* no login is running or waiting for its callback
LoginsFinished == \A w \in Slots : site[w].fn # "login"

\* C25: when logins have run in different workers, one has failed and one has
\* succeeded, and all of them have finished, the shared handle and the saved
\* token are those of a login that succeeded: the failed login has discarded
\* neither.
C25_FailedLoginKeepsSession ==
    (/\ LoginsFinished
     /\ \E i \in 1..Len(loginResults) : loginResults[i].ok
     /\ \E j \in 1..Len(loginResults) : ~loginResults[j].ok)
    => \E i \in 1..Len(loginResults) :
        /\ loginResults[i].ok
        /\ hf_token = loginResults[i].token
        /\ _api_instance # NoHandle
        /\ _api_instance.token = Strip(loginResults[i].token)

\* the queued call the interactive thread runs next reports success of a
\* worker of function fn
SuccessOf(fn) ==
    /\ eventQueue # <<>>
    /\ eventQueue' = Tail(eventQueue)
    /\ Head(eventQueue).signal.sig = "finished"
    /\ site[Head(eventQueue).w].fn = fn

\* C26 (as stated): once a README push of a repository was reported as done,
\* the cache entry of the repository, and the view while the repository is
\* selected, hold the pushed content until the next push or explicit reload;
\* a load dispatched earlier and delivered later does not replace them.
C26_PushedContentKept ==
    \A r \in Repos :
        lastPush[r] # NoEntry =>
            /\ _readme_cache[r] = lastPush[r]
            /\ (Current = r => readmeView = Shown(lastPush[r]))

\* C26 (amended): the last delivered outcome wins.  A delivered push writes
\* its content to the cache entry and to the view; a delivered load of the
\* selected repository writes what it read, whether or not a push was
\* delivered between its dispatch and its delivery.
C26_LastDeliveredWins ==
    [][/\ SuccessOf("push_readme") =>
            LET w == Head(eventQueue).w IN
                /\ _readme_cache'[wargs[w].repo] = wargs[w].content
                /\ readmeView' = Shown(wargs[w].content)
       /\ (SuccessOf("get_readme") /\ _current_repo_id = wargs[Head(eventQueue).w].repo.id) =>
            LET ev == Head(eventQueue) IN
                /\ _readme_cache'[wargs[ev.w].repo] = ev.signal.arg
                /\ readmeView' = Shown(ev.signal.arg)]_vars

\* a load delivered after a push has replaced the pushed content
C26_Witness ==
    \E r \in Repos :
        /\ lastPush[r] # NoEntry
        /\ _readme_cache[r] \notin {NoEntry, lastPush[r]}
        /\ Current = r
        /\ readmeView = Shown(_readme_cache[r])

\* the workers started with busy=True whose outcome has not been delivered
BusyInFlight == {w \in Slots : wpc[w] # "unborn" /\ busyArg[w]}

\* C27: _busy is True whenever a worker started with busy=True has not yet
\* delivered its outcome, and at most one such worker is in flight.
C27_BusyTracksWorkers ==
    /\ (BusyInFlight # {} => _busy)
    /\ Cardinality(BusyInFlight) <= 1

\* C28: after logout and until the user starts a new login, no user is set
\* and the repository list and the collections are empty, whatever workers
\* dispatched before the logout deliver.
C28_LogoutStaysCleared ==
    loggedOut => /\ _user = "None"
                 /\ _all_repos = "empty"
                 /\ collections = "empty"

\* C29: once closeEvent has run, no success or error callback of a worker
\* runs on the controller and none changes its state: an outcome queued for
\* the interactive thread before the shutdown is dropped.
C29_NoCallbackAfterClose ==
    [][closed => /\ delivered' = delivered
                 /\ _workers' = _workers
                 /\ _busy' = _busy]_vars

\* C30: for every value of retries, zero and negative values included, a
\* finished call of with_retry has invoked the operation at least once and
\* its outcome is one the operation produced: a value it returned or a
\* failure it raised.
C30_OutcomeIsTheOperations ==
    Terminal => /\ callLog # <<>>
                /\ \E i \in 1..Len(callLog) : result = callLog[i]

\* C31: the operation has taken the shared handle once, at its start, and
\* every attempt of its with_retry call has run on that handle, whatever
\* another worker has done to the shared handle in between.
C31_AttemptsUseTakenHandle ==
    bpc = "retry" =>
        /\ Top.api # NoHandle
        /\ Top.api = apiRet[OpWorker]
        /\ \A i \in 1..Len(selfLog) : selfLog[i] = Top.api

\* two attempts have run on the operation's handle although the shared handle
\* is another object, or none, by now
C31_Witness ==
    /\ bpc = "retry"
    /\ Len(selfLog) >= 2
    /\ \A i \in 1..Len(selfLog) : selfLog[i] = Top.api
    /\ _api_instance # Top.api

\* the queued call the interactive thread runs next is the outcome of a file
\* listing or of a README load that was requested for a repository that is
\* not the selected one any more
StaleDelivery ==
    /\ eventQueue # <<>>
    /\ eventQueue' = Tail(eventQueue)
    /\ site[Head(eventQueue).w].fn \in {"fetch", "get_readme"}
    /\ wargs[Head(eventQueue).w].repo # Current

\* C32: a file listing or README result delivered after the selected
\* repository has changed since its request is discarded: it changes neither
\* the file browser, nor the README view, nor the README cache.
C32_StaleResultDiscarded ==
    [][StaleDelivery =>
        UNCHANGED <<browser_repo, readmeView, view_repo, _readme_cache>>]_vars

\* C33: every README cache entry holds content that was fetched from or
\* pushed to the repository; a fetch that failed leaves no entry.  Every
\* repository of the model has a README that is not empty, so an empty entry
\* is the result of a failed fetch.
C33_CacheHoldsRemoteContent ==
    \A r \in Repos : _readme_cache[r] # NoEntry => _readme_cache[r] \in RemoteContents

\* the functions that change a collection and then fetch it
ItemOperations == {"add_collection_item", "remove_collection_item"}

\* C34: add_collection_item and remove_collection_item raise only if the
\* remote collection was left unchanged: when they have raised, their first
\* remote call, the one that adds or removes the item, had not succeeded.
C34_FailureMeansUnchanged ==
    (/\ bpc = "done"
     /\ called \in ItemOperations
     /\ bresult.kind = "raise")
    => (remoteKinds # <<>> /\ remoteKinds[1] # "ok")

\* C35: whenever a current repository is set and no busy operation is under
\* way, it is the repository of the current item of the repository list; a
\* selection change made while busy is caught up with when the busy operation
\* ends.
C35_CurrentIsSelected ==
    (_current_repo_id # "" /\ ~_busy) => Current = tree_item
====
